---- MODULE Spec2Model ----
(***************************************************************************)
(* A model of the schedule projector of ezmedicationinput                  *)
(* (src/src/schedule.ts): nextDueDoses and the helpers it calls.           *)
(*                                                                         *)
(* Instants (JavaScript Date values) are integers counting ticks since     *)
(* 2024-01-01T00:00:00Z, a Monday; a second holds TicksPerSecond ticks, so  *)
(* instants with a fractional second exist in the model.  JavaScript       *)
(* numbers that may be fractional, NaN, infinite or undefined (limit,      *)
(* count, priorCount and what is computed from them) are records           *)
(* [k, h] with h counting Den-ths.  A time zone is a fixed offset from UTC  *)
(* (no daylight-saving transitions).                                       *)
(***************************************************************************)
EXTENDS Integers, Sequences, FiniteSets, TLC

\* Resolution of the model's instants: ticks per second.
TicksPerSecond == 2
\* Resolution of the model's fractional numbers: h counts Den-ths.
Den == 2

SECONDS_PER_MINUTE == 60
MINUTES_PER_DAY == 24 * 60
SecondsPerDay == MINUTES_PER_DAY * SECONDS_PER_MINUTE
TicksPerDay == SecondsPerDay * TicksPerSecond

\* An optional value: <<>> is undefined / null, <<x>> is x.
None == <<>>
Some(x) == <<x>>
IsSome(o) == Len(o) > 0
Val(o) == o[1]

Min2(a, b) == IF a <= b THEN a ELSE b
Max2(a, b) == IF a >= b THEN a ELSE b

(***************************************************************************)
(* JavaScript numbers                                                      *)
(***************************************************************************)
Fin(h) == [k |-> "fin", h |-> h]
Whole(n) == Fin(n * Den)
NaN == [k |-> "nan", h |-> 0]
PosInf == [k |-> "inf", h |-> 0]
Undef == [k |-> "undef", h |-> 0]

\* Number.isFinite
NumIsFinite(x) == x.k = "fin"
\* ToNumber(x) is NaN: NaN itself, and undefined read as a number
NumIsNaN(x) == x.k \in {"nan", "undef"}
\* Math.floor
NumFloor(x) == IF x.k = "fin" THEN Fin((x.h \div Den) * Den) ELSE x
\* Math.max(0, x)
NumMax0(x) ==
  IF NumIsNaN(x) THEN NaN
  ELSE IF x.k = "inf" THEN x
  ELSE Fin(Max2(0, x.h))
\* a - b
NumSub(a, b) ==
  IF NumIsNaN(a) \/ NumIsNaN(b) THEN NaN
  ELSE IF a.k = "inf" \/ b.k = "inf" THEN (IF a.k = b.k THEN NaN ELSE a)
  ELSE Fin(a.h - b.h)
\* Math.min(a, b)
NumMin(a, b) ==
  IF NumIsNaN(a) \/ NumIsNaN(b) THEN NaN
  ELSE IF a.k = "inf" THEN b
  ELSE IF b.k = "inf" THEN a
  ELSE Fin(Min2(a.h, b.h))
\* a * n for a whole n > 0
NumTimes(a, n) == IF a.k = "fin" THEN Fin(a.h * n) ELSE IF NumIsNaN(a) THEN NaN ELSE a
\* a < b, a <= b, a === b; every comparison with NaN is false
NumLt(a, b) ==
  /\ ~NumIsNaN(a) /\ ~NumIsNaN(b)
  /\ \/ a.k = "fin" /\ b.k = "inf"
     \/ a.k = "fin" /\ b.k = "fin" /\ a.h < b.h
NumEq(a, b) ==
  /\ ~NumIsNaN(a) /\ ~NumIsNaN(b)
  /\ a.k = b.k /\ a.h = b.h
NumLe(a, b) == NumLt(a, b) \/ NumEq(a, b)
\* array.slice(0, end): end through ToIntegerOrInfinity, then clamped
SliceEnd(len, end) ==
  IF end.k = "undef" THEN len
  ELSE IF end.k = "nan" THEN 0
  ELSE IF end.k = "inf" THEN len
  ELSE IF end.h >= 0 THEN Min2(len, end.h \div Den)
  ELSE Max2(0, len - ((0 - end.h) \div Den))
Slice(arr, end) == SubSeq(arr, 1, SliceEnd(Len(arr), end))

(***************************************************************************)
(* The platform's calendar: Date.UTC, Intl.DateTimeFormat                  *)
(***************************************************************************)
\* Days from 1970-01-01 to 2024-01-01.
EpochShift == 54 * 365 + 13

\* Days from 2024-01-01 to the first day of month m (1..12) of year y.
DaysToMonth(y, m) ==
  LET yy  == IF m <= 2 THEN y - 1 ELSE y
      era == yy \div 400
      yoe == yy - era * 400
      mp  == IF m > 2 THEN m - 3 ELSE m + 9
      doy == (153 * mp + 2) \div 5
      doe == yoe * 365 + yoe \div 4 - yoe \div 100 + doy
  IN  era * 146097 + doe - 719468 - EpochShift

\* [year, month, day] of the day n days after 2024-01-01; the steps of the
\* conversion, each from the values the one before it computed.
CivilRecord(y, m, d) ==
  [year |-> y + (IF m <= 2 THEN 1 ELSE 0), month |-> m, day |-> d]
CivilOfMp(era, yoe, doy, mp) ==
  CivilRecord(yoe + era * 400, IF mp < 10 THEN mp + 3 ELSE mp - 9,
              doy - (153 * mp + 2) \div 5 + 1)
CivilOfDoy(era, yoe, doy) == CivilOfMp(era, yoe, doy, (5 * doy + 2) \div 153)
CivilOfYoe(era, doe, yoe) ==
  CivilOfDoy(era, yoe, doe - (365 * yoe + yoe \div 4 - yoe \div 100))
CivilOfDoe(era, doe) ==
  CivilOfYoe(era, doe, (doe - doe \div 1460 + doe \div 36524 - doe \div 146096) \div 365)
CivilFromDays(n) ==
  CivilOfDoe((n + EpochShift + 719468) \div 146097, (n + EpochShift + 719468) % 146097)

\* Date.UTC(year, month - 1, day, hour, minute, second): out-of-range fields
\* carry over (month 13 is January of the next year, day 32 the next month).
DateUTC(year, month, day, hour, minute, second) ==
  ((DaysToMonth(year + (month - 1) \div 12, ((month - 1) % 12) + 1) + day - 1) * SecondsPerDay
     + hour * 3600 + minute * SECONDS_PER_MINUTE + second) * TicksPerSecond

\* The zone's offset from UTC in minutes; every zone here has a fixed offset.
ZoneOffsetMinutes(timeZone) ==
  CASE timeZone = "UTC" -> 0
    [] timeZone = "Asia/Bangkok" -> 420
    [] timeZone = "America/Bogota" -> 0 - 300
    [] OTHER -> 0

\* The wall-clock second in the zone shown for an instant: formatToParts
\* drops the fraction of the second.
LocalSeconds(date, timeZone) ==
  (date \div TicksPerSecond) + ZoneOffsetMinutes(timeZone) * SECONDS_PER_MINUTE

\* The TimeParts of a wall-clock second.
PartsRecord(c, secondOfDay) ==
  [year |-> c.year, month |-> c.month, day |-> c.day,
   hour |-> secondOfDay \div 3600,
   minute |-> (secondOfDay % 3600) \div SECONDS_PER_MINUTE,
   second |-> secondOfDay % SECONDS_PER_MINUTE]
PartsOfLocal(localSeconds) ==
  PartsRecord(CivilFromDays(localSeconds \div SecondsPerDay), localSeconds % SecondsPerDay)

getTimeParts(date, timeZone) == PartsOfLocal(LocalSeconds(date, timeZone))

\* Date.UTC of a TimeParts (line 230).
UtcOfParts(p) == DateUTC(p.year, p.month, p.day, p.hour, p.minute, p.second)

\* getOffset, kept in ticks: the code divides this by the ticks of a minute,
\* which is a whole number of minutes only when the instant has no fraction.
OffsetTicks(date, timeZone) == UtcOfParts(getTimeParts(date, timeZone)) - date

TicksPerMinute == SECONDS_PER_MINUTE * TicksPerSecond

\* formatZonedIso: the string is determined by, and determines, the wall-clock
\* second it shows (loc) and the offset it prints (off, in ticks).
formatZonedIso(date, timeZone) ==
  [loc |-> LocalSeconds(date, timeZone), off |-> OffsetTicks(date, timeZone)]

\* A printed timestamp is ISO-8601 only when its offset is whole minutes.
IsoWellFormed(iso) == iso.off % TicksPerMinute = 0
\* The instant a well-formed timestamp denotes.
IsoInstant(iso) == iso.loc * TicksPerSecond - iso.off

\* makeZonedDate, lines 268-279: null (None) unless the candidate shows the
\* wanted parts in the zone.
ZonedVerify(timeZone, candidate, wanted) ==
  IF getTimeParts(candidate, timeZone) # wanted THEN None ELSE Some(candidate)
\* lines 264-267
ZonedPick(timeZone, initialUtc, offset, recalculatedOffset, wanted) ==
  ZonedVerify(timeZone,
              IF recalculatedOffset # offset THEN initialUtc - recalculatedOffset
              ELSE initialUtc - offset,
              wanted)
\* lines 263-264
ZonedRecheck(timeZone, initialUtc, offset, wanted) ==
  ZonedPick(timeZone, initialUtc, offset,
            OffsetTicks(initialUtc - offset, timeZone), wanted)
\* lines 261-262
ZonedFromUtc(timeZone, initialUtc, wanted) ==
  ZonedRecheck(timeZone, initialUtc, OffsetTicks(initialUtc, timeZone), wanted)

makeZonedDate(timeZone, year, month, day, hour, minute, second) ==
  ZonedFromUtc(timeZone, DateUTC(year, month, day, hour, minute, second),
               [year |-> year, month |-> month, day |-> day,
                hour |-> hour, minute |-> minute, second |-> second])

\* makeZonedDate at a clock on the day of parts p, shifted by days.
ZonedOnDay(timeZone, p, days, clock) ==
  makeZonedDate(timeZone, p.year, p.month, p.day + days, clock[1], clock[2], clock[3])

\* A normalized clock "HH:mm:ss" is the triple <<HH, mm, ss>>.
makeZonedDateFromDay(base, timeZone, clock) ==
  ZonedOnDay(timeZone, getTimeParts(base, timeZone), 0, clock)

\* startOfLocalDay and addLocalDays: None is a thrown Error.
startOfLocalDay(date, timeZone) ==
  ZonedOnDay(timeZone, getTimeParts(date, timeZone), 0, <<0, 0, 0>>)

addLocalDays(date, days, timeZone) ==
  ZonedOnDay(timeZone, getTimeParts(date, timeZone), days, <<0, 0, 0>>)

\* getLocalWeekday; 2024-01-01 is a Monday.
WeekdayNames == <<"mon", "tue", "wed", "thu", "fri", "sat", "sun">>
getLocalWeekday(date, timeZone) ==
  WeekdayNames[((LocalSeconds(date, timeZone) \div SecondsPerDay) % 7) + 1]

(***************************************************************************)
(* Clocks and event expansion                                              *)
(***************************************************************************)
\* A clock string is the sequence of the numbers between its colons:
\* "08:00" is <<8, 0>>, "25:00" is <<25, 0>>; a part that is not a number
\* (NaN) is NotANumber.
NotANumber == 0 - 1

\* normalizeClock: None is the thrown "Invalid clock value".
normalizeClock(clock) ==
  IF Len(clock) < 2 \/ Len(clock) > 3 THEN None
  ELSE LET hour == clock[1]
           minute == clock[2]
           second == IF Len(clock) = 3 THEN clock[3] ELSE 0
       IN  IF \/ hour = NotANumber \/ minute = NotANumber \/ second = NotANumber
              \/ hour < 0 \/ hour > 23 \/ minute < 0 \/ minute > 59
              \/ second < 0 \/ second > 59
           THEN None
           ELSE Some(<<hour, minute, second>>)

\* applyOffset: the two while loops of the code bring totalMinutes into
\* 0..MINUTES_PER_DAY-1 one day at a time, counting the days in dayShift.
applyOffset(clock, offsetMinutes) ==
  LET totalMinutes == clock[1] * SECONDS_PER_MINUTE + clock[2] + offsetMinutes
      dayShift == totalMinutes \div MINUTES_PER_DAY
      wrapped == totalMinutes % MINUTES_PER_DAY
  IN  [time |-> <<wrapped \div SECONDS_PER_MINUTE, wrapped % SECONDS_PER_MINUTE, clock[3]>>,
       dayShift |-> dayShift]

\* map[key] ?? fallback
LookupOr(map, key, fallback) == IF key \in DOMAIN map THEN map[key] ELSE fallback
\* { ...base, ...override }
Spread(base, override) ==
  [key \in DOMAIN base \cup DOMAIN override |->
     IF key \in DOMAIN override THEN override[key] ELSE base[key]]
EmptyMap == [key \in {} |-> 0]

getDefaultMealPairs == <<"CM", "CD", "CV">>

SPECIFIC_BEFORE_MEALS == [ACM |-> "CM", ACD |-> "CD", ACV |-> "CV"]
SPECIFIC_AFTER_MEALS == [PCM |-> "CM", PCD |-> "CD", PCV |-> "CV"]

\* The result of a helper that may throw: ok = FALSE is the thrown Error.
Thrown == [ok |-> FALSE, val |-> <<>>]
Returned(v) == [ok |-> TRUE, val |-> v]

\* The meal loop of expandTiming's AC / PC / C branches.
ExpandMeals(config, offsetMinutes, useOffset) ==
  LET present == SelectSeq(getDefaultMealPairs, LAMBDA meal : meal \in DOMAIN config.eventClock)
      clocks == [i \in 1..Len(present) |-> normalizeClock(config.eventClock[present[i]])]
  IN  IF \E i \in 1..Len(present) : clocks[i] = None THEN Thrown
      ELSE Returned([i \in 1..Len(present) |->
             IF useOffset THEN applyOffset(Val(clocks[i]), offsetMinutes)
             ELSE [time |-> Val(clocks[i]), dayShift |-> 0]])

\* The branch of expandTiming for a specific before/after-meal code.
ExpandSpecific(config, code, mealCode, generalCode) ==
  IF mealCode \notin DOMAIN config.eventClock THEN Returned(<<>>)
  ELSE LET baseClock == normalizeClock(config.eventClock[mealCode])
           offset == LookupOr(config.mealOffsets, code,
                              LookupOr(config.mealOffsets, generalCode, 0))
       IN  IF baseClock = None THEN Thrown
           ELSE Returned(<<IF offset # 0 THEN applyOffset(Val(baseClock), offset)
                           ELSE [time |-> Val(baseClock), dayShift |-> 0]>>)

\* The code's own clock of expandTiming (lines 391-395).
ExpandDirect(baseClock) ==
  IF baseClock = None THEN Thrown
  ELSE Returned(<<[time |-> Val(baseClock), dayShift |-> 0]>>)

\* The entries expandTiming collects in `normalized` before repeat.offset.
ExpandNormalized(code, config) ==
  IF code \in DOMAIN config.eventClock
  THEN ExpandDirect(normalizeClock(config.eventClock[code]))
  ELSE IF code = "AC" \/ code = "PC"
  THEN ExpandMeals(config, LookupOr(config.mealOffsets, code, 0), TRUE)
  ELSE IF code = "C" THEN ExpandMeals(config, 0, FALSE)
  ELSE IF code \in DOMAIN SPECIFIC_BEFORE_MEALS
  THEN ExpandSpecific(config, code, SPECIFIC_BEFORE_MEALS[code], "AC")
  ELSE IF code \in DOMAIN SPECIFIC_AFTER_MEALS
  THEN ExpandSpecific(config, code, SPECIFIC_AFTER_MEALS[code], "PC")
  ELSE Returned(<<>>)

\* The repeat.offset adjustment of one entry (lines 441-447).
AdjustEntry(entry, adjusted) ==
  [time |-> adjusted.time, dayShift |-> entry.dayShift + adjusted.dayShift]

\* lines 440-450
ApplyRepeatOffset(normalized, repeat) ==
  IF normalized.ok /\ repeat.offset # 0 /\ Len(normalized.val) > 0
  THEN Returned([i \in 1..Len(normalized.val) |->
         AdjustEntry(normalized.val[i], applyOffset(normalized.val[i].time, repeat.offset))])
  ELSE normalized

expandTiming(code, config, repeat) ==
  ApplyRepeatOffset(ExpandNormalized(code, config), repeat)

\* a.time.localeCompare(b.time) < 0 on zero-padded "HH:mm:ss" strings
ClockLess(a, b) ==
  \/ a[1] < b[1]
  \/ a[1] = b[1] /\ a[2] < b[2]
  \/ a[1] = b[1] /\ a[2] = b[2] /\ a[3] < b[3]

\* The comparator of both sorts of expanded entries is negative.
EntryLess(a, b) ==
  IF a.dayShift # b.dayShift THEN a.dayShift < b.dayShift ELSE ClockLess(a.time, b.time)

\* Array.prototype.sort with that comparator: stable.
RECURSIVE InsertSorted(_, _)
InsertSorted(sorted, e) ==
  IF sorted = <<>> THEN <<e>>
  ELSE IF EntryLess(e, sorted[Len(sorted)])
       THEN Append(InsertSorted(SubSeq(sorted, 1, Len(sorted) - 1), e), sorted[Len(sorted)])
       ELSE Append(sorted, e)

RECURSIVE SortEntries(_)
SortEntries(entries) ==
  IF entries = <<>> THEN <<>>
  ELSE InsertSorted(SortEntries(SubSeq(entries, 1, Len(entries) - 1)), entries[Len(entries)])

\* The inner loop of expandWhenCodes (lines 463-469): an entry's key
\* `${dayShift}|${time}` is the entry itself.
RECURSIVE AddAll(_, _)
AddAll(acc, rest) ==
  IF rest = <<>> THEN acc
  ELSE IF \E i \in 1..Len(acc) : acc[i] = Head(rest)
       THEN AddAll(acc, Tail(rest))
       ELSE AddAll(Append(acc, Head(rest)), Tail(rest))

\* The outer loop of expandWhenCodes: entries collected so far, codes still
\* to visit.
RECURSIVE CollectExpansions(_, _, _, _)
AddExpansions(entries, expansions, whenCodes, config, repeat) ==
  IF ~expansions.ok THEN Thrown
  ELSE CollectExpansions(AddAll(entries, expansions.val), Tail(whenCodes), config, repeat)

CollectExpansions(entries, whenCodes, config, repeat) ==
  IF whenCodes = <<>> THEN Returned(entries)
  ELSE IF Head(whenCodes) = "IMD"
       THEN CollectExpansions(entries, Tail(whenCodes), config, repeat)
       ELSE AddExpansions(entries, expandTiming(Head(whenCodes), config, repeat),
                          whenCodes, config, repeat)

\* The trailing sort of expandWhenCodes (lines 471-480).
SortCollected(collected) ==
  IF collected.ok THEN Returned(SortEntries(collected.val)) ELSE Thrown

expandWhenCodes(whenCodes, config, repeat) ==
  SortCollected(CollectExpansions(<<>>, whenCodes, config, repeat))


(***************************************************************************)
(* Frequency fallback clocks                                               *)
(***************************************************************************)
\* A byFrequency key `freq:${frequency}/${periodUnit}` is <<"freq", f, unit>>,
\* and `freq:${frequency}/per:${period}${periodUnit}` is <<"freq", f, "per", p, unit>>.
FreqKey(frequency, periodUnit) == <<"freq", frequency, periodUnit>>
PerPeriodKey(frequency, period, periodUnit) == <<"freq", frequency, "per", period, periodUnit>>

DEFAULT_FREQUENCY_DEFAULTS ==
  [byCode |-> [BID |-> <<<<8, 0>>, <<20, 0>>>>,
               TID |-> <<<<8, 0>>, <<14, 0>>, <<20, 0>>>>,
               QID |-> <<<<8, 0>>, <<12, 0>>, <<16, 0>>, <<20, 0>>>>,
               QD  |-> <<<<9, 0>>>>,
               QOD |-> <<<<9, 0>>>>,
               AM  |-> <<<<8, 0>>>>,
               PM  |-> <<<<20, 0>>>>],
   byFrequency |-> (FreqKey(1, "d") :> <<<<9, 0>>>>)
                @@ (FreqKey(2, "d") :> <<<<8, 0>>, <<20, 0>>>>)
                @@ (FreqKey(3, "d") :> <<<<8, 0>>, <<14, 0>>, <<20, 0>>>>)
                @@ (FreqKey(4, "d") :> <<<<8, 0>>, <<12, 0>>, <<16, 0>>, <<20, 0>>>>)]

\* A FrequencyFallbackTimes with neither table.
NoFrequencyDefaults == [byCode |-> EmptyMap, byFrequency |-> EmptyMap]

\* mergeFrequencyDefaults; an absent table and an empty one spread alike.
mergeFrequencyDefaults(base, override) ==
  [byCode |-> Spread(base.byCode, override.byCode),
   byFrequency |-> Spread(base.byFrequency, override.byFrequency)]

\* String.prototype.toUpperCase on the timing codes of the model.
ToUpperCase(code) ==
  CASE code = "bid" -> "BID"
    [] code = "tid" -> "TID"
    [] OTHER -> code

\* Array.from(set).sort() on normalized clocks.
RECURSIVE SortedClocks(_)
SortedClocks(set) ==
  IF set = {} THEN <<>>
  ELSE LET least == CHOOSE c \in set : \A d \in set : d = c \/ ClockLess(c, d)
       IN  <<least>> \o SortedClocks(set \ {least})

\* The normalized clocks of one table entry; Thrown if one is invalid.
NormalizedSet(clocks) ==
  IF \E i \in 1..Len(clocks) : normalizeClock(clocks[i]) = None THEN Thrown
  ELSE Returned({Val(normalizeClock(clocks[i])) : i \in 1..Len(clocks)})

resolveFrequencyClocks(timing, config) ==
  LET defaults == [byCode |-> Spread(DEFAULT_FREQUENCY_DEFAULTS.byCode,
                                     config.frequencyDefaults.byCode),
                   byFrequency |-> Spread(DEFAULT_FREQUENCY_DEFAULTS.byFrequency,
                                          config.frequencyDefaults.byFrequency)]
      repeat == Val(timing.repeat)
      fromCode ==
        IF IsSome(timing.code) /\ ToUpperCase(Val(timing.code)) \in DOMAIN defaults.byCode
        THEN NormalizedSet(defaults.byCode[ToUpperCase(Val(timing.code))])
        ELSE Returned({})
      hasFrequency == repeat.frequency # 0 /\ repeat.period # 0 /\ repeat.periodUnit # ""
      key == FreqKey(repeat.frequency, repeat.periodUnit)
      fromKey ==
        IF hasFrequency /\ key \in DOMAIN defaults.byFrequency
        THEN NormalizedSet(defaults.byFrequency[key])
        ELSE Returned({})
      perPeriodKey == PerPeriodKey(repeat.frequency, repeat.period, repeat.periodUnit)
      fromPerPeriod ==
        IF hasFrequency /\ perPeriodKey \in DOMAIN defaults.byFrequency
        THEN NormalizedSet(defaults.byFrequency[perPeriodKey])
        ELSE Returned({})
  IN  IF fromCode.ok /\ fromKey.ok /\ fromPerPeriod.ok
      THEN Returned(SortedClocks(fromCode.val \cup fromKey.val \cup fromPerPeriod.val))
      ELSE Thrown

(***************************************************************************)
(* Interval stepping                                                       *)
(***************************************************************************)
\* Date.prototype.setUTCMonth(getUTCMonth() + 1) and setUTCDate(0) as
\* addCalendarMonths applies them to a copy of candidate (lines 891-893): each
\* rebuilds the instant from its UTC fields, carrying overflow.
SetUTCFields(p, month, day) == DateUTC(p.year, month, day, p.hour, p.minute, p.second)
SetUTCMonthNext(date) ==
  SetUTCFields(getTimeParts(date, "UTC"), getTimeParts(date, "UTC").month + 1,
               getTimeParts(date, "UTC").day)
SetUTCDateZero(date) ==
  SetUTCFields(getTimeParts(date, "UTC"), getTimeParts(date, "UTC").month, 0)
\* line 894
MaxDayOf(candidate, timeZone) ==
  getTimeParts(SetUTCDateZero(SetUTCMonthNext(candidate)), timeZone).day

\* lines 888-908: None is a thrown Error.
MonthsClamp(p, timeZone, targetYear, targetMonth, candidate) ==
  IF candidate = None THEN None
  ELSE makeZonedDate(timeZone, targetYear, targetMonth + 1,
                     Min2(p.day, MaxDayOf(Val(candidate), timeZone)),
                     p.hour, p.minute, p.second)
\* lines 879-887
MonthsToTarget(p, timeZone, targetYear, targetMonth) ==
  MonthsClamp(p, timeZone, targetYear, targetMonth,
              makeZonedDate(timeZone, targetYear, targetMonth + 1, 1,
                            p.hour, p.minute, p.second))
\* lines 876-878
MonthsFromParts(p, months, timeZone) ==
  MonthsToTarget(p, timeZone, p.year + (p.month - 1 + months) \div 12,
                 (p.month - 1 + months) % 12)

addCalendarMonths(date, months, timeZone) ==
  MonthsFromParts(getTimeParts(date, timeZone), months, timeZone)

\* createIntervalStepper: FALSE when the code returns null instead of a stepper.
HasStepper(repeat) ==
  /\ repeat.period # 0
  /\ repeat.periodUnit \in {"s", "min", "h", "d", "wk", "mo", "a"}

\* The stepper createIntervalStepper returns, applied to value: None is a throw.
\* The fixed units add period times the unit's milliseconds.
increment(repeat, timeZone, value) ==
  LET period == repeat.period
      periodUnit == repeat.periodUnit
  IN  CASE periodUnit = "s" -> Some(value + period * TicksPerSecond)
        [] periodUnit = "min" -> Some(value + period * 60 * TicksPerSecond)
        [] periodUnit = "h" -> Some(value + period * 60 * 60 * TicksPerSecond)
        [] periodUnit = "d" -> Some(value + period * 24 * 60 * 60 * TicksPerSecond)
        [] periodUnit = "wk" -> Some(value + period * 7 * 24 * 60 * 60 * TicksPerSecond)
        [] periodUnit = "mo" -> addCalendarMonths(value, period, timeZone)
        [] periodUnit = "a" -> addCalendarMonths(value, period * 12, timeZone)


(***************************************************************************)
(* nextDueDoses                                                            *)
(***************************************************************************)
VARIABLES
  dosage,          \* the FhirDosage argument
  options,         \* the NextDueDoseOptions argument
  pc,              \* where the call stands
  priorCount,      \* the local priorCount (Undef while unassigned)
  effectiveLimit,  \* the local effectiveLimit
  expanded,        \* the local expanded (event-anchored branch)
  clocks,          \* the local clocks (frequency branch)
  results,         \* the local results; each element is [iso, by, at]: the
                   \* pushed string, the branch that pushed it and the Date
                   \* it was formatted from (by and at are bookkeeping)
  currentDay,      \* the local currentDay of the two day walks
  iterations,      \* the local iterations of the two day walks
  current,         \* generateIntervalSeries' current
  guard,           \* generateIntervalSeries' guard
  outcome,         \* [kind, list]: "running", "returned" with the list, "threw"
  previous         \* the outcome of the call before this one, if there was one

\* parseSig and parseSigAsync (src/unnamed/part_009) keep state of their own,
\* which a nextDueDoses call neither reads nor writes.
VARIABLES
  tokens,          \* tokenize(input): the words; tokens[n] is the Token of index n - 1
  parseOptions,    \* the ParseOptions argument of the parse
  internal,        \* the ParsedSigInternal of the parse
  cursor,          \* i of parseInternal's token loop, counted from 1
  stage,           \* where parseInternal stands
  marks,           \* the token positions mark() was called with, in call order
  resolution,      \* the resolver passes of one parseSig / parseSigAsync call
  calls            \* the resolver invocations and settlements, in order

\* The other entry points of the library, each with state of its own.
VARIABLES
  roundTrip,       \* a Dosage on its way through internalFromFhir and toFhir
  finished,        \* the parseInternal calls that have ended, in order: the
                   \* arguments of each and what it returned or threw
  formatting,      \* dateTimeFormatCache and weekdayFormatCache of
                   \* src/src/schedule.ts, with the lookups made so far
  suggestion       \* one suggestSig call

parserVars == <<tokens, parseOptions, internal, cursor, stage, marks>>
resolverVars == <<resolution, calls>>
otherVars == <<roundTrip, finished, formatting, suggestion>>

vars == <<dosage, options, previous, pc, priorCount, effectiveLimit, expanded,
          clocks, results, currentDay, iterations, current, guard, outcome,
          parserVars, resolverVars, otherVars>>

\* No parse, and no resolver pass, is under way.
ParserIdle ==
  /\ tokens = <<>> /\ parseOptions = <<>> /\ internal = <<>>
  /\ cursor = 0 /\ stage = "idle" /\ marks = <<>>
ResolverIdle == resolution = <<>> /\ calls = <<>>
FhirIdle == roundTrip = <<>>
NoEarlierCalls == finished = <<>>
FormattingIdle == formatting = <<>>
SuggestIdle == suggestion = <<>>
OthersIdle == FhirIdle /\ NoEarlierCalls /\ FormattingIdle /\ SuggestIdle

\* A Date | string argument: undefined, one that coerceDate rejects, or an instant.
NoDate == [k |-> "undef", t |-> 0]
BadDate == [k |-> "invalid", t |-> 0]
DateAt(t) == [k |-> "date", t |-> t]

DefaultLimit == 10
\* options.limit ?? 10
LimitOf(opts) == IF opts.limit.k = "undef" THEN Whole(DefaultLimit) ELSE opts.limit
\* options.timeZone ?? providedConfig?.timeZone
TimeZoneOf(opts) == IF IsSome(opts.timeZone) THEN opts.timeZone ELSE opts.config.timeZone
\* The config object nextDueDoses builds (lines 589-606).
ConfigOf(opts) ==
  [eventClock |-> Spread(opts.config.eventClock, opts.eventClock),
   mealOffsets |-> Spread(opts.config.mealOffsets, opts.mealOffsets),
   frequencyDefaults |-> mergeFrequencyDefaults(opts.config.frequencyDefaults,
                                                opts.frequencyDefaults)]

From == options.from.t
HasOrderedAt == options.orderedAt.k = "date"
OrderedAt == options.orderedAt.t
\* orderedAt ?? from
BaseTime == IF HasOrderedAt THEN OrderedAt ELSE From
TimeZone == Val(TimeZoneOf(options))
Timing == Val(dosage.timing)
Repeat == Val(Timing.repeat)
Limit == LimitOf(options)

\* new Set((repeat.dayOfWeek ?? []).map((day) => day.toLowerCase()))
ToLowerCase(day) ==
  CASE day = "Mon" -> "mon"
    [] day = "TUE" -> "tue"
    [] OTHER -> day
DayFilterOf(repeat) == {ToLowerCase(repeat.dayOfWeek[i]) : i \in 1..Len(repeat.dayOfWeek)}
DayAllowed(repeat, weekday) ==
  DayFilterOf(repeat) = {} \/ weekday \in DayFilterOf(repeat)

\* results.length < x, results.length >= x, results.length === x
LengthLt(res, x) == NumLt(Whole(Len(res)), x)
LengthGe(res, x) == NumLe(x, Whole(Len(res)))
LengthEq(res, x) == NumEq(Whole(Len(res)), x)

\* seen.has(iso): every string added to seen was pushed to results with it.
Seen(res, iso) == \E i \in 1..Len(res) : res[i].iso = iso
Push(res, iso, by, at) == Append(res, [iso |-> iso, by |-> by, at |-> at])
\* The strings of a list of results: what the caller receives.
IsoList(res) == [i \in 1..Len(res) |-> res[i].iso]

Return(list) == [kind |-> "returned", list |-> list]
Throw == [kind |-> "threw", list |-> <<>>]
Running == [kind |-> "running", list |-> <<>>]

\* PriorCountOf with the unfinished branch of line 579 assigning 0.
PriorCountOfZero(opts) ==
  IF opts.priorCount.k # "undef" THEN NumFloor(opts.priorCount) ELSE Whole(0)

\* The priorCount local after lines 569-581.
PriorCountOf(opts) ==
  IF opts.priorCount.k # "undef" THEN NumFloor(opts.priorCount)
  ELSE IF opts.orderedAt.k # "date" THEN Whole(0)
  ELSE Undef

\* Lines 549-612: the checks before the count is read.
Validate ==
  /\ UNCHANGED <<parserVars, resolverVars, otherVars>>
  /\ pc = "start"
  /\ UNCHANGED <<dosage, options, previous, effectiveLimit, expanded, clocks, results,
                 currentDay, iterations, current, guard>>
  /\ IF options.from.k = "undef"
     THEN pc' = "done" /\ outcome' = Throw /\ UNCHANGED priorCount
     ELSE IF ~NumIsFinite(Limit) \/ NumLe(Limit, Whole(0))
     THEN pc' = "done" /\ outcome' = Return(<<>>) /\ UNCHANGED priorCount
     ELSE IF options.from.k = "invalid" \/ options.orderedAt.k = "invalid"
     THEN pc' = "done" /\ outcome' = Throw /\ UNCHANGED priorCount
     ELSE IF /\ options.priorCount.k # "undef"
             /\ (~NumIsFinite(options.priorCount) \/ NumLt(options.priorCount, Whole(0)))
     THEN pc' = "done" /\ outcome' = Throw /\ UNCHANGED priorCount
     ELSE /\ priorCount' = PriorCountOf(options)
          /\ IF ~IsSome(TimeZoneOf(options))
             THEN pc' = "done" /\ outcome' = Throw
             ELSE IF ~IsSome(dosage.timing) \/ ~IsSome(Timing.repeat)
             THEN pc' = "done" /\ outcome' = Return(<<>>)
             ELSE pc' = "count" /\ UNCHANGED outcome

\* Math.max(0, Math.floor(rawCount)), Undef when rawCount is undefined.
NormalizedCount(repeat) ==
  IF repeat.count.k = "undef" THEN Undef ELSE NumMax0(NumFloor(repeat.count))
\* Math.max(0, normalizedCount - priorCount), Undef without a count.
RemainingCount(repeat, prior) ==
  IF repeat.count.k = "undef" THEN Undef
  ELSE NumMax0(NumSub(NormalizedCount(repeat), prior))
\* EffectiveLimit without the count: the limit alone.
EffectiveLimitIgnoringCount(limit, remainingCount) == limit

\* Lines 625-626.
EffectiveLimit(limit, remainingCount) ==
  IF remainingCount.k # "undef" THEN NumMin(limit, remainingCount) ELSE limit

\* line 635
HasAnchors(repeat) == Len(repeat.when) > 0 \/ Len(repeat.timeOfDay) > 0
\* lines 704-709
treatAsInterval(repeat) ==
  /\ repeat.period # 0
  /\ repeat.periodUnit # ""
  /\ \/ repeat.frequency = 0
     \/ repeat.periodUnit # "d"
     \/ repeat.frequency = 1 /\ repeat.period > 1
\* line 727
HasFrequency(repeat) ==
  repeat.frequency # 0 /\ repeat.period # 0 /\ repeat.periodUnit # ""

\* Lines 614-631: the count cap.
CountLimit ==
  /\ UNCHANGED <<parserVars, resolverVars, otherVars>>
  /\ pc = "count"
  /\ UNCHANGED <<dosage, options, previous, priorCount, expanded, clocks, results,
                 currentDay, iterations, current, guard>>
  /\ LET normalizedCount == NormalizedCount(Repeat)
         remainingCount == RemainingCount(Repeat, priorCount)
     IN  IF normalizedCount.k # "undef" /\ NumEq(normalizedCount, Whole(0))
         THEN pc' = "done" /\ outcome' = Return(<<>>) /\ UNCHANGED effectiveLimit
         ELSE IF remainingCount.k # "undef" /\ NumEq(remainingCount, Whole(0))
         THEN pc' = "done" /\ outcome' = Return(<<>>) /\ UNCHANGED effectiveLimit
         ELSE /\ effectiveLimit' = EffectiveLimit(Limit, remainingCount)
              /\ pc' = "dispatch"
              /\ UNCHANGED outcome


\* The timeOfDay loop of lines 637-640: the entries pushed; Thrown on a bad clock.
TimeOfDayEntries(timeOfDay) ==
  IF \E i \in 1..Len(timeOfDay) : normalizeClock(timeOfDay[i]) = None THEN Thrown
  ELSE Returned([i \in 1..Len(timeOfDay) |->
         [time |-> Val(normalizeClock(timeOfDay[i])), dayShift |-> 0]])

\* Lines 635-647: the expanded entries of the anchored branch.
ExpandedOf(repeat, config) ==
  LET fromWhen == expandWhenCodes(repeat.when, config, repeat)
      fromTimeOfDay == TimeOfDayEntries(repeat.timeOfDay)
  IN  IF ~fromWhen.ok THEN Thrown
      ELSE IF Len(repeat.timeOfDay) = 0 THEN fromWhen
      ELSE IF ~fromTimeOfDay.ok THEN Thrown
      ELSE Returned(SortEntries(fromWhen.val \o fromTimeOfDay.val))

ExpandAnchors ==
  /\ UNCHANGED <<parserVars, resolverVars, otherVars>>
  /\ pc = "dispatch"
  /\ HasAnchors(Repeat)
  /\ UNCHANGED <<dosage, options, previous, priorCount, effectiveLimit, clocks, results,
                 currentDay, iterations, current, guard>>
  /\ LET e == ExpandedOf(Repeat, ConfigOf(options))
     IN  IF e.ok
         THEN expanded' = e.val /\ pc' = "immediate" /\ UNCHANGED outcome
         ELSE pc' = "done" /\ outcome' = Throw /\ UNCHANGED expanded

\* arrayIncludes(whenCodes, EventTiming.Immediate)
includesImmediate(repeat) == \E i \in 1..Len(repeat.when) : repeat.when[i] = "IMD"

\* WithImmediate without the test of line 651.
WithImmediateUnguarded(res, repeat, opts, timeZone) ==
  IF includesImmediate(repeat) /\ opts.orderedAt.k = "date"
  THEN Push(res, formatZonedIso(opts.orderedAt.t, timeZone), "immediate", opts.orderedAt.t)
  ELSE IF includesImmediate(repeat)
  THEN Push(res, formatZonedIso(opts.from.t, timeZone), "immediate", opts.from.t)
  ELSE res

\* Lines 649-658: results after the immediate dose was considered.
WithImmediate(res, repeat, opts, timeZone) ==
  LET hasOrderedAt == opts.orderedAt.k = "date"
      immediateSource == IF hasOrderedAt THEN opts.orderedAt.t ELSE opts.from.t
      instantIso == formatZonedIso(immediateSource, timeZone)
  IN  IF /\ includesImmediate(repeat)
         /\ (~hasOrderedAt \/ opts.orderedAt.t >= opts.from.t)
         /\ ~Seen(res, instantIso)
      THEN Push(res, instantIso, "immediate", immediateSource)
      ELSE res

\* AfterImmediate without the return of line 663: with nothing expanded the
\* call goes on past the anchored block.
AfterImmediateFallsThrough(res, effLimit, exp) ==
  IF LengthGe(res, effLimit) THEN "return"
  ELSE IF Len(exp) = 0 THEN "after"
  ELSE "walk"

\* Lines 659-664: "return" when one of the two early returns is taken, else
\* "walk".  ("after" would be the code past the anchored block, line 704.)
AfterImmediate(res, effLimit, exp) ==
  IF LengthGe(res, effLimit) THEN "return"
  ELSE IF Len(exp) = 0 THEN "return"
  ELSE "walk"

Immediate ==
  /\ UNCHANGED <<parserVars, resolverVars, otherVars>>
  /\ pc = "immediate"
  /\ UNCHANGED <<dosage, options, previous, priorCount, effectiveLimit, expanded, clocks,
                 current, guard>>
  /\ LET res == WithImmediate(results, Repeat, options, TimeZone)
         next == AfterImmediate(res, effectiveLimit, expanded)
         start == startOfLocalDay(From, TimeZone)
     IN  /\ results' = res
         /\ IF next = "return"
            THEN /\ pc' = "done" /\ outcome' = Return(Slice(res, effectiveLimit))
                 /\ UNCHANGED <<currentDay, iterations>>
            ELSE IF next = "after"
            THEN pc' = "after" /\ UNCHANGED <<outcome, currentDay, iterations>>
            ELSE IF start = None
            THEN pc' = "done" /\ outcome' = Throw /\ UNCHANGED <<currentDay, iterations>>
            ELSE /\ pc' = "eventWalk" /\ currentDay' = Val(start) /\ iterations' = 0
                 /\ UNCHANGED outcome

\* The day walks' bound: effectiveLimit * 31.
DaysPerLimit == 31
WalkContinues(res, effLimit, iters) ==
  LengthLt(res, effLimit) /\ NumLt(Whole(iters), NumTimes(effLimit, DaysPerLimit))

\* The for loop over one day's entries (lines 671-693, and 741-760 where every
\* entry has dayShift 0): Returned(results), or Thrown when addLocalDays throws.
RECURSIVE EmitDay(_, _, _, _, _, _, _)
EmitDay(res, entries, day, opts, timeZone, effLimit, by) ==
  IF entries = <<>> THEN Returned(res)
  ELSE LET entry == Head(entries)
           targetDay == IF entry.dayShift = 0 THEN Some(day)
                        ELSE addLocalDays(day, entry.dayShift, timeZone)
       IN  IF targetDay = None THEN Thrown
           ELSE LET zoned == makeZonedDateFromDay(Val(targetDay), timeZone, entry.time)
                IN  IF zoned = None
                    THEN EmitDay(res, Tail(entries), day, opts, timeZone, effLimit, by)
                    ELSE IF Val(zoned) < opts.from.t
                    THEN EmitDay(res, Tail(entries), day, opts, timeZone, effLimit, by)
                    ELSE IF opts.orderedAt.k = "date" /\ Val(zoned) < opts.orderedAt.t
                    THEN EmitDay(res, Tail(entries), day, opts, timeZone, effLimit, by)
                    ELSE LET iso == formatZonedIso(Val(zoned), timeZone)
                             pushed == Push(res, iso, by, Val(zoned))
                         IN  IF Seen(res, iso)
                             THEN EmitDay(res, Tail(entries), day, opts, timeZone, effLimit, by)
                             ELSE IF LengthEq(pushed, effLimit) THEN Returned(pushed)
                             ELSE EmitDay(pushed, Tail(entries), day, opts, timeZone, effLimit, by)

\* Lines 668-700: one iteration of the event-anchored day walk.
EventDay ==
  /\ UNCHANGED <<parserVars, resolverVars, otherVars>>
  /\ pc = "eventWalk"
  /\ WalkContinues(results, effectiveLimit, iterations)
  /\ UNCHANGED <<dosage, options, previous, priorCount, effectiveLimit, expanded, clocks,
                 current, guard>>
  /\ LET weekday == getLocalWeekday(currentDay, TimeZone)
         emitted == IF DayAllowed(Repeat, weekday)
                    THEN EmitDay(results, expanded, currentDay, options, TimeZone,
                                 effectiveLimit, "event")
                    ELSE Returned(results)
         nextDay == addLocalDays(currentDay, 1, TimeZone)
     IN  IF ~emitted.ok
         THEN pc' = "done" /\ outcome' = Throw /\ UNCHANGED <<results, currentDay, iterations>>
         ELSE /\ results' = emitted.val
              /\ IF LengthGe(emitted.val, effectiveLimit)
                 THEN UNCHANGED <<pc, outcome, currentDay, iterations>>
                 ELSE IF nextDay = None
                 THEN pc' = "done" /\ outcome' = Throw /\ UNCHANGED <<currentDay, iterations>>
                 ELSE /\ currentDay' = Val(nextDay) /\ iterations' = iterations + 1
                      /\ UNCHANGED <<pc, outcome>>

\* Line 701.
EventReturn ==
  /\ UNCHANGED <<parserVars, resolverVars, otherVars>>
  /\ pc = "eventWalk"
  /\ ~WalkContinues(results, effectiveLimit, iterations)
  /\ pc' = "done"
  /\ outcome' = Return(Slice(results, effectiveLimit))
  /\ UNCHANGED <<dosage, options, previous, priorCount, effectiveLimit, expanded, clocks,
                 results, currentDay, iterations, current, guard>>

\* The code past the anchored block is reached when there are no anchors.
PastAnchors == (pc = "dispatch" /\ ~HasAnchors(Repeat)) \/ pc = "after"

\* maxIterations of generateIntervalSeries: effectiveLimit * 1000.
StepsPerLimit == 1000
GuardOpen(effLimit, g) == NumLt(Whole(g), NumTimes(effLimit, StepsPerLimit))
\* SkipContinues stepping past a point that falls on from itself.
SkipContinuesThroughFrom(cur, from, effLimit, g) == cur <= from /\ GuardOpen(effLimit, g)

\* The condition of the first loop (line 794) and of the second (line 802).
SkipContinues(cur, from, effLimit, g) == cur < from /\ GuardOpen(effLimit, g)
SeriesContinues(res, effLimit, g) == LengthLt(res, effLimit) /\ GuardOpen(effLimit, g)

\* Lines 711-725 and 785-793: generateIntervalSeries is entered.
IntervalStart ==
  /\ UNCHANGED <<parserVars, resolverVars, otherVars>>
  /\ PastAnchors
  /\ treatAsInterval(Repeat)
  /\ UNCHANGED <<dosage, options, previous, priorCount, effectiveLimit, expanded, clocks,
                 currentDay, iterations>>
  /\ results' = <<>>
  /\ IF ~HasStepper(Repeat)
     THEN pc' = "done" /\ outcome' = Return(<<>>) /\ UNCHANGED <<current, guard>>
     ELSE /\ current' = BaseTime /\ guard' = 0 /\ UNCHANGED outcome
          /\ pc' = IF SkipContinues(BaseTime, From, effectiveLimit, 0)
                   THEN "intervalSkip" ELSE "intervalSeries"

\* Lines 794-801: one iteration of the first loop.
IntervalSkip ==
  /\ UNCHANGED <<parserVars, resolverVars, otherVars>>
  /\ pc = "intervalSkip"
  /\ UNCHANGED <<dosage, options, previous, priorCount, effectiveLimit, expanded, clocks,
                 results, currentDay, iterations>>
  /\ LET next == increment(Repeat, TimeZone, current)
     IN  IF next = None
         THEN pc' = "done" /\ outcome' = Throw /\ UNCHANGED <<current, guard>>
         ELSE IF Val(next) = current
         THEN pc' = "intervalSeries" /\ UNCHANGED <<outcome, current, guard>>
         ELSE /\ current' = Val(next) /\ guard' = guard + 1 /\ UNCHANGED outcome
              /\ pc' = IF SkipContinues(Val(next), From, effectiveLimit, guard + 1)
                       THEN "intervalSkip" ELSE "intervalSeries"

\* Lines 803-829: what one iteration of the second loop does before it steps:
\* "skip" (one of the two continue branches), or the results after the push.
SeriesVisit(res, cur, repeat, opts, timeZone) ==
  LET weekday == getLocalWeekday(cur, timeZone)
      iso == formatZonedIso(cur, timeZone)
  IN  IF ~DayAllowed(repeat, weekday) THEN [skip |-> FALSE, res |-> res]
      ELSE IF cur < opts.from.t THEN [skip |-> TRUE, res |-> res]
      ELSE IF opts.orderedAt.k = "date" /\ cur < opts.orderedAt.t
      THEN [skip |-> TRUE, res |-> res]
      ELSE IF Seen(res, iso) THEN [skip |-> FALSE, res |-> res]
      ELSE [skip |-> FALSE, res |-> Push(res, iso, "interval", cur)]

\* Lines 802-836: one iteration of the second loop.
IntervalSeries ==
  /\ UNCHANGED <<parserVars, resolverVars, otherVars>>
  /\ pc = "intervalSeries"
  /\ SeriesContinues(results, effectiveLimit, guard)
  /\ UNCHANGED <<dosage, options, previous, priorCount, effectiveLimit, expanded, clocks,
                 currentDay, iterations>>
  /\ LET visit == SeriesVisit(results, current, Repeat, options, TimeZone)
         next == increment(Repeat, TimeZone, current)
     IN  /\ results' = visit.res
         /\ IF next = None
            THEN pc' = "done" /\ outcome' = Throw /\ UNCHANGED <<current, guard>>
            ELSE IF Val(next) = current
            THEN /\ pc' = "done" /\ outcome' = Return(Slice(visit.res, effectiveLimit))
                 /\ guard' = IF visit.skip THEN guard + 1 ELSE guard
                 /\ UNCHANGED current
            ELSE /\ current' = Val(next) /\ guard' = guard + 1
                 /\ UNCHANGED <<pc, outcome>>

\* Line 837.
IntervalReturn ==
  /\ UNCHANGED <<parserVars, resolverVars, otherVars>>
  /\ pc = "intervalSeries"
  /\ ~SeriesContinues(results, effectiveLimit, guard)
  /\ pc' = "done"
  /\ outcome' = Return(Slice(results, effectiveLimit))
  /\ UNCHANGED <<dosage, options, previous, priorCount, effectiveLimit, expanded, clocks,
                 results, currentDay, iterations, current, guard>>

\* Lines 727-737: the frequency fallback is entered.
FrequencyStart ==
  /\ UNCHANGED <<parserVars, resolverVars, otherVars>>
  /\ PastAnchors
  /\ ~treatAsInterval(Repeat)
  /\ HasFrequency(Repeat)
  /\ UNCHANGED <<dosage, options, previous, priorCount, effectiveLimit, expanded, results,
                 current, guard>>
  /\ LET resolved == resolveFrequencyClocks(Timing, ConfigOf(options))
         start == startOfLocalDay(From, TimeZone)
     IN  IF ~resolved.ok
         THEN pc' = "done" /\ outcome' = Throw /\ UNCHANGED <<clocks, currentDay, iterations>>
         ELSE IF Len(resolved.val) = 0
         THEN /\ pc' = "done" /\ outcome' = Return(<<>>)
              /\ UNCHANGED <<clocks, currentDay, iterations>>
         ELSE IF start = None
         THEN pc' = "done" /\ outcome' = Throw /\ UNCHANGED <<clocks, currentDay, iterations>>
         ELSE /\ clocks' = resolved.val /\ currentDay' = Val(start) /\ iterations' = 0
              /\ pc' = "frequencyWalk" /\ UNCHANGED outcome

\* Lines 738-764: one iteration of the frequency day walk.
FrequencyDay ==
  /\ UNCHANGED <<parserVars, resolverVars, otherVars>>
  /\ pc = "frequencyWalk"
  /\ WalkContinues(results, effectiveLimit, iterations)
  /\ UNCHANGED <<dosage, options, previous, priorCount, effectiveLimit, expanded, clocks,
                 current, guard>>
  /\ LET weekday == getLocalWeekday(currentDay, TimeZone)
         entries == [i \in 1..Len(clocks) |-> [time |-> clocks[i], dayShift |-> 0]]
         emitted == IF DayAllowed(Repeat, weekday)
                    THEN EmitDay(results, entries, currentDay, options, TimeZone,
                                 effectiveLimit, "frequency")
                    ELSE Returned(results)
         nextDay == addLocalDays(currentDay, 1, TimeZone)
     IN  /\ results' = emitted.val
         /\ IF nextDay = None
            THEN pc' = "done" /\ outcome' = Throw /\ UNCHANGED <<currentDay, iterations>>
            ELSE /\ currentDay' = Val(nextDay) /\ iterations' = iterations + 1
                 /\ UNCHANGED <<pc, outcome>>

\* Line 765.
FrequencyReturn ==
  /\ UNCHANGED <<parserVars, resolverVars, otherVars>>
  /\ pc = "frequencyWalk"
  /\ ~WalkContinues(results, effectiveLimit, iterations)
  /\ pc' = "done"
  /\ outcome' = Return(Slice(results, effectiveLimit))
  /\ UNCHANGED <<dosage, options, previous, priorCount, effectiveLimit, expanded, clocks,
                 results, currentDay, iterations, current, guard>>

\* Line 768.
NoShape ==
  /\ UNCHANGED <<parserVars, resolverVars, otherVars>>
  /\ PastAnchors
  /\ ~treatAsInterval(Repeat)
  /\ ~HasFrequency(Repeat)
  /\ pc' = "done"
  /\ outcome' = Return(<<>>)
  /\ UNCHANGED <<dosage, options, previous, priorCount, effectiveLimit, expanded, clocks,
                 results, currentDay, iterations, current, guard>>

\* A caller that passed no priorCount for a count-capped schedule repeats the
\* call with priorCount: 0 and otherwise the same arguments.
CallAgain ==
  /\ UNCHANGED <<parserVars, resolverVars, otherVars>>
  /\ pc = "done"
  /\ previous = None
  /\ options.priorCount.k = "undef"
  /\ IsSome(dosage.timing) /\ IsSome(Timing.repeat)
  /\ Repeat.count.k # "undef"
  /\ previous' = Some(outcome)
  /\ options' = [options EXCEPT !.priorCount = Whole(0)]
  /\ pc' = "start"
  /\ priorCount' = Undef
  /\ effectiveLimit' = Undef
  /\ expanded' = <<>>
  /\ clocks' = <<>>
  /\ results' = <<>>
  /\ currentDay' = 0
  /\ iterations' = 0
  /\ current' = 0
  /\ guard' = 0
  /\ outcome' = Running
  /\ UNCHANGED dosage


(***************************************************************************)
(* The calls explored                                                      *)
(***************************************************************************)
\* Largest whole limit, count and priorCount among the inputs.
MaxLimit == 3
MaxCount == 3
MaxPrior == 2

\* The clinic clocks of test/schedule.spec.ts, and clocks near midnight.
TestClock ==
  [MORN |-> <<8, 0>>, NOON |-> <<12, 0>>, AFT |-> <<15, 0>>, EVE |-> <<18, 0>>,
   NIGHT |-> <<22, 0>>, HS |-> <<22, 0>>, CM |-> <<8, 0>>, CD |-> <<12, 30>>,
   CV |-> <<18, 30>>]
NightClock == [CM |-> <<0, 15>>, CV |-> <<23, 30>>, HS |-> <<23, 50>>]
TestOffsets == [AC |-> 0 - 30, PC |-> 30, PCM |-> 30, PCD |-> 30, PCV |-> 30]

NoConfig ==
  [timeZone |-> None, eventClock |-> EmptyMap, mealOffsets |-> EmptyMap,
   frequencyDefaults |-> NoFrequencyDefaults]

RepeatOf(when, timeOfDay, period, periodUnit, frequency) ==
  [when |-> when, timeOfDay |-> timeOfDay, dayOfWeek |-> <<>>, period |-> period,
   periodUnit |-> periodUnit, frequency |-> frequency, count |-> Undef, offset |-> 0]

AnchoredShapes ==
  { RepeatOf(<<"CM", "CV">>, <<>>, 0, "", 0),
    RepeatOf(<<"IMD">>, <<>>, 0, "", 0),
    RepeatOf(<<"IMD", "PCM">>, <<>>, 0, "", 0),
    RepeatOf(<<"ACM", "HS">>, <<>>, 0, "", 0),
    RepeatOf(<<"PC">>, <<>>, 0, "", 0),
    RepeatOf(<<>>, <<<<8, 0>>, <<16, 0>>>>, 0, "", 0),
    RepeatOf(<<"CM">>, <<<<8, 0>>>>, 0, "", 0),
    RepeatOf(<<"IMD">>, <<>>, 1, "d", 2),
    RepeatOf(<<"CM">>, <<>>, 6, "h", 0),
    RepeatOf(<<"NOON">>, <<<<25, 0>>>>, 0, "", 0) }

IntervalShapes ==
  { RepeatOf(<<>>, <<>>, 1, "h", 0),
    RepeatOf(<<>>, <<>>, 6, "h", 0),
    RepeatOf(<<>>, <<>>, 30, "min", 0),
    RepeatOf(<<>>, <<>>, 1, "d", 0),
    RepeatOf(<<>>, <<>>, 1, "wk", 0),
    RepeatOf(<<>>, <<>>, 1, "mo", 0),
    RepeatOf(<<>>, <<>>, 1, "a", 0),
    RepeatOf(<<>>, <<>>, 2, "d", 1),
    RepeatOf(<<>>, <<>>, 1, "fortnight", 0) }

FrequencyShapes ==
  { RepeatOf(<<>>, <<>>, 1, "d", 2),
    RepeatOf(<<>>, <<>>, 1, "d", 3),
    RepeatOf(<<>>, <<>>, 1, "d", 7),
    RepeatOf(<<>>, <<>>, 0, "", 0) }

DayFilters == {<<>>, <<"mon">>, <<"TUE", "thu">>}

Counts == {Undef} \cup {Whole(n) : n \in 0..MaxCount} \cup {Fin(Den + 1)}
PriorCounts == {Undef} \cup {Whole(n) : n \in 0..MaxPrior} \cup {Fin(1)}
Limits == {Undef} \cup {Whole(n) : n \in 1..MaxLimit} \cup {Fin(2 * Den + 1)}

Froms ==
  { DateUTC(2024, 1, 8, 10, 0, 0),
    DateUTC(2024, 1, 8, 9, 0, 0) + 1,
    DateUTC(2024, 1, 30, 12, 0, 0) }

\* orderedAt relative to from: absent (None), or a number of seconds after it.
OrderedAtDeltas ==
  { None, Some(0), Some(0 - 55 * 60), Some(0 - (49 * 3600)), Some(2 * 3600) }

OrderedAtOf(from, delta) ==
  IF delta = None THEN NoDate ELSE DateAt(from + Val(delta) * TicksPerSecond)

TimeZones == {"UTC", "Asia/Bangkok"}

OptionsOf(from, orderedAt, limit, prior, timeZone, eventClock, mealOffsets) ==
  [from |-> from, orderedAt |-> orderedAt, limit |-> limit, priorCount |-> prior,
   timeZone |-> timeZone, eventClock |-> eventClock, mealOffsets |-> mealOffsets,
   frequencyDefaults |-> NoFrequencyDefaults, config |-> NoConfig]

DosageOf(code, repeat) == [timing |-> Some([code |-> code, repeat |-> Some(repeat)])]

\* The locals before the call has assigned them.
InitLocals ==
  /\ pc = "start"
  /\ priorCount = Undef
  /\ effectiveLimit = Undef
  /\ expanded = <<>>
  /\ clocks = <<>>
  /\ results = <<>>
  /\ currentDay = 0
  /\ iterations = 0
  /\ current = 0
  /\ guard = 0
  /\ outcome = Running
  /\ previous = None

\* The timing code that goes with a shape in the inputs.
CodeOf(shape) == IF shape.frequency = 2 THEN Some("bid") ELSE None

\* The model's instants span some thirty years, and a stepper that never meets
\* the day filter steps effectiveLimit * 1000 times: a weekly schedule has a
\* day filter here only when its baseline falls on a filtered weekday, and a
\* yearly one has none.
InRange(shape, dayOfWeek, from, delta, timeZone) ==
  \/ dayOfWeek = <<>>
  \/ shape.period = 0
  \/ shape.periodUnit \in {"min", "h", "d", "mo", "fortnight"}
  \/ /\ shape.periodUnit = "wk"
     /\ LET orderedAt == OrderedAtOf(from, delta)
            base == IF orderedAt.k = "date" THEN orderedAt.t ELSE from
        IN  getLocalWeekday(base, timeZone) \in DayFilterOf([dayOfWeek |-> dayOfWeek])

\* Every schedule shape, without a count cap.
InitShapes ==
  \E shape \in AnchoredShapes \cup IntervalShapes \cup FrequencyShapes,
     dayOfWeek \in DayFilters, limit \in {Undef, Whole(MaxLimit)},
     from \in Froms, delta \in OrderedAtDeltas,
     timeZone \in TimeZones, eventClock \in {TestClock, NightClock} :
    /\ (shape \notin AnchoredShapes => eventClock = TestClock)
    /\ InRange(shape, dayOfWeek, from, delta, timeZone)
    /\ dosage = DosageOf(CodeOf(shape), [shape EXCEPT !.dayOfWeek = dayOfWeek])
    /\ options = OptionsOf(DateAt(from), OrderedAtOf(from, delta), limit, Undef,
                           Some(timeZone), eventClock, TestOffsets)

CountShapes ==
  { RepeatOf(<<"CM", "CV">>, <<>>, 0, "", 0),
    RepeatOf(<<"IMD", "PCM">>, <<>>, 0, "", 0),
    RepeatOf(<<>>, <<<<8, 0>>, <<16, 0>>>>, 0, "", 0),
    RepeatOf(<<>>, <<>>, 1, "h", 0),
    RepeatOf(<<>>, <<>>, 1, "d", 2) }

\* Count caps, prior counts and limits over one shape of each kind.
InitCounts ==
  \E shape \in CountShapes, count \in Counts, prior \in PriorCounts,
     limit \in Limits, from \in Froms, delta \in OrderedAtDeltas :
    /\ from # DateUTC(2024, 1, 30, 12, 0, 0)
    /\ dosage = DosageOf(CodeOf(shape), [shape EXCEPT !.count = count])
    /\ options = OptionsOf(DateAt(from), OrderedAtOf(from, delta), limit, prior,
                           Some("UTC"), TestClock, TestOffsets)

\* A schedule stepping by the second whose order is long past: orderedAt lies
\* about limit * 1000 steps before from.
InitLongGap ==
  \E limit \in {Whole(n) : n \in 1..MaxLimit - 1},
     gap \in {0, StepsPerLimit - 2, StepsPerLimit - 1, StepsPerLimit} :
    /\ dosage = DosageOf(None, RepeatOf(<<>>, <<>>, 1, "s", 0))
    /\ options = OptionsOf(DateAt(DateUTC(2024, 1, 8, 10, 0, 0)),
                           DateAt(DateUTC(2024, 1, 8, 10, 0, 0) - gap * TicksPerSecond),
                           limit, Undef, Some("UTC"), TestClock, TestOffsets)

\* A day walk that meets no qualifying instant: with orderedAt set more than
\* limit * 31 days after from, every clock of every walked day is before it.
InitLateOrder ==
  \E shape \in {RepeatOf(<<"CM", "CV">>, <<>>, 0, "", 0), RepeatOf(<<>>, <<>>, 1, "d", 2)},
     limit \in {Whole(1), Whole(MaxLimit - 1)}, from \in Froms, timeZone \in TimeZones :
    /\ dosage = DosageOf(CodeOf(shape), shape)
    /\ options = OptionsOf(DateAt(from), DateAt(from + MaxLimit * DaysPerLimit * TicksPerDay),
                           limit, Whole(0), Some(timeZone), TestClock, TestOffsets)

\* Institution clocks of the caller: a table by timing code, a table by
\* frequency key, given in the options or in options.config.
CodeOverrides == {EmptyMap, [BID |-> <<<<6, 0>>, <<18, 0>>>>]}
FrequencyOverrides == {EmptyMap, FreqKey(2, "d") :> <<<<7, 0>>, <<19, 0>>>>}

InitOverrides ==
  \E code \in {None, Some("bid")}, byCode \in CodeOverrides,
     byFrequency \in FrequencyOverrides, inConfig \in BOOLEAN,
     from \in Froms, limit \in {Whole(1), Whole(MaxLimit)} :
    /\ byCode # EmptyMap \/ byFrequency # EmptyMap
    /\ dosage = DosageOf(code, RepeatOf(<<>>, <<>>, 1, "d", 2))
    /\ LET tables == [byCode |-> byCode, byFrequency |-> byFrequency]
           opts == OptionsOf(DateAt(from), NoDate, limit, Whole(0), Some("UTC"),
                             TestClock, TestOffsets)
       IN  options = IF inConfig THEN [opts EXCEPT !.config.frequencyDefaults = tables]
                     ELSE [opts EXCEPT !.frequencyDefaults = tables]

\* Calls the checks of lines 549-612 turn away, and calls they let through.
BadLimits == {Whole(0), Whole(0 - 1), NaN, PosInf, Fin(1), Whole(1)}
BadPriorCounts == {Undef, Whole(0 - 1), NaN, PosInf}
Timings ==
  { [timing |-> None],
    [timing |-> Some([code |-> None, repeat |-> None])],
    DosageOf(None, RepeatOf(<<"IMD", "PCM">>, <<>>, 0, "", 0)),
    DosageOf(None, [RepeatOf(<<>>, <<>>, 1, "h", 0) EXCEPT !.count = Whole(0 - 1)]) }

InitValidation ==
  \E timing \in Timings, from \in {NoDate, BadDate, DateAt(DateUTC(2024, 1, 8, 10, 0, 0))},
     orderedAt \in {NoDate, BadDate}, limit \in BadLimits, prior \in BadPriorCounts,
     timeZone \in {None, Some("UTC")}, configZone \in {None, Some("Asia/Bangkok")} :
    /\ dosage = timing
    /\ options = [OptionsOf(from, orderedAt, limit, prior, timeZone, TestClock, TestOffsets)
                   EXCEPT !.config.timeZone = configZone]

InitSchedules ==
  \/ InitShapes \/ InitCounts \/ InitLongGap \/ InitLateOrder
  \/ InitOverrides \/ InitValidation

Init == InitLocals /\ InitSchedules /\ ParserIdle /\ ResolverIdle /\ OthersIdle

Next ==
  \/ Validate
  \/ CountLimit
  \/ ExpandAnchors
  \/ Immediate
  \/ EventDay
  \/ EventReturn
  \/ IntervalStart
  \/ IntervalSkip
  \/ IntervalSeries
  \/ IntervalReturn
  \/ FrequencyStart
  \/ FrequencyDay
  \/ FrequencyReturn
  \/ NoShape
  \/ CallAgain

Spec == Init /\ [][Next]_vars

(***************************************************************************)
(* Properties of a finished call                                           *)
(***************************************************************************)
\* The call has returned a list.
CallReturned == pc = "done" /\ outcome.kind = "returned"
\* The dosage carries a repeat block.
HasRepeat == IsSome(dosage.timing) /\ IsSome(Timing.repeat)
\* The call passes the argument checks of lines 549-588.
ValidCall ==
  /\ options.from.k = "date"
  /\ options.orderedAt.k # "invalid"
  /\ options.priorCount.k = "undef"
       \/ (NumIsFinite(options.priorCount) /\ NumLe(Whole(0), options.priorCount))
  /\ IsSome(TimeZoneOf(options))
\* The repeat block has a count cap.
HasCount == HasRepeat /\ Repeat.count.k = "fin"
PriorCountOmitted == options.priorCount.k = "undef"

\* The instant a returned element's string denotes: its wall-clock second less
\* the offset it prints.
InstantOf(dose) == IsoInstant(dose.iso)
\* The weekday, in the zone of the call, that a returned string shows.
WeekdayOf(dose) == WeekdayNames[((dose.iso.loc \div SecondsPerDay) % 7) + 1]

\* The cap the count and the limit put on the result, in the numbers of the
\* options: min(limit, max(0, floor(count) - floor(priorCount))), the limit
\* alone without a count; an omitted priorCount is 0.
StatedCap ==
  IF HasCount
  THEN NumMin(Limit, NumMax0(NumSub(NumFloor(Repeat.count),
                IF PriorCountOmitted THEN Whole(0) ELSE NumFloor(options.priorCount))))
  ELSE Limit

\* C1: a count-capped schedule with count c, priorCount omitted, orderedAt
\* supplied and no dose due before from (orderedAt = from) returns exactly c
\* timestamps whenever limit >= c.
C1_ExactCount ==
  (/\ pc = "done" /\ ValidCall /\ HasCount /\ PriorCountOmitted
   /\ HasOrderedAt /\ OrderedAt = From
   /\ NumLe(NormalizedCount(Repeat), Limit))
  => /\ outcome.kind = "returned"
     /\ Whole(Len(outcome.list)) = NormalizedCount(Repeat)

\* C2: with a count cap, a call that omits priorCount returns what the same
\* call returns with priorCount: 0, whether or not orderedAt is supplied.
C2_OmittedPriorCountIsZero ==
  (pc = "done" /\ previous # None) => outcome = Val(previous)

\* The start of the local day of an instant, in a zone of fixed offset.
LocalDayStart(t, timeZone) ==
  (t - (t % TicksPerSecond)) - (LocalSeconds(t, timeZone) % SecondsPerDay) * TicksPerSecond
\* The instant of a clock entry on the k-th day from dayStart.
EntryInstant(dayStart, k, entry) ==
  dayStart + (k + entry.dayShift) * TicksPerDay
    + (entry.time[1] * 3600 + entry.time[2] * SECONDS_PER_MINUTE + entry.time[3]) * TicksPerSecond
\* The doses of a list of clock entries due in the half-open window [a, b).
EntriesDueIn(entries, a, b, timeZone) ==
  Cardinality({ EntryInstant(LocalDayStart(a, timeZone), k, entries[i]) :
                  k \in (0 - 1)..((b - a) \div TicksPerDay + 2), i \in 1..Len(entries) }
              \cap a..(b - 1))
\* The clock entries of the schedule of the call: the expanded anchors, or the
\* frequency clocks.
ScheduleEntries ==
  IF HasAnchors(Repeat) THEN ExpandedOf(Repeat, ConfigOf(options)).val
  ELSE [i \in 1..Len(resolveFrequencyClocks(Timing, ConfigOf(options)).val) |->
          [time |-> resolveFrequencyClocks(Timing, ConfigOf(options)).val[i], dayShift |-> 0]]
\* The step of a fixed-unit interval schedule, in ticks.
FixedStep == Val(increment(Repeat, TimeZone, 0))
\* The doses the schedule of the call produces from orderedAt up to, and not
\* including, from.
DosesDueBefore ==
  IF ~HasAnchors(Repeat) /\ treatAsInterval(Repeat)
  THEN (From - OrderedAt + FixedStep - 1) \div FixedStep
  ELSE EntriesDueIn(ScheduleEntries, OrderedAt, From, TimeZone)
         + (IF includesImmediate(Repeat) THEN 1 ELSE 0)

\* The case of C3: a returned call on a count-capped schedule, priorCount
\* omitted, orderedAt before from.
EarlierOrderCase ==
  /\ CallReturned /\ HasCount /\ PriorCountOmitted
  /\ HasOrderedAt /\ OrderedAt < From

C4_CountAndLimitCap ==
  CallReturned =>
    /\ (NumIsFinite(Limit) /\ NumLt(Whole(0), Limit))
         => NumLe(Whole(Len(outcome.list)), StatedCap)
    /\ (~NumIsFinite(Limit) \/ NumLe(Limit, Whole(0))) => outcome.list = <<>>
    /\ (HasCount /\ NumLe(NumFloor(Repeat.count), Whole(0))) => outcome.list = <<>>
    /\ (HasCount /\ ~PriorCountOmitted /\ NumLe(Repeat.count, options.priorCount))
         => outcome.list = <<>>

\* A returned call whose count, less a prior count, cut the result below the limit.
C4_Witness ==
  /\ CallReturned /\ HasCount /\ ~PriorCountOmitted
  /\ NumLt(Whole(0), options.priorCount)
  /\ NumLt(StatedCap, Limit)
  /\ Len(outcome.list) >= 1
  /\ NumEq(Whole(Len(outcome.list)), StatedCap)

\* C5: the returned list is in strictly ascending chronological order, no
\* instant repeated, in every schedule shape.
C5_StrictlyAscending ==
  CallReturned =>
    \A i \in 1..Len(outcome.list) : \A j \in 1..Len(outcome.list) :
      i < j => InstantOf(outcome.list[i]) < InstantOf(outcome.list[j])

C7_DayFilter ==
  (CallReturned /\ HasRepeat /\ Len(Repeat.dayOfWeek) > 0) =>
    \A i \in 1..Len(outcome.list) : WeekdayOf(outcome.list[i]) \in DayFilterOf(Repeat)

\* C8 as stated: one call's result is produced by exactly one shape (immediate,
\* event-anchored, fixed interval, frequency fallback).
C8_OneShape ==
  CallReturned =>
    \A i \in 1..Len(outcome.list) : \A j \in 1..Len(outcome.list) :
      outcome.list[i].by = outcome.list[j].by

\* C8, amended: the immediate timestamp may stand with event-anchored ones, at
\* the head of the list and only once; otherwise the timestamps of one
\* result come from one shape.
C8_OneShapeButImmediate ==
  CallReturned =>
    /\ \/ \A i \in 1..Len(outcome.list) : outcome.list[i].by \in {"immediate", "event"}
       \/ \A i \in 1..Len(outcome.list) : outcome.list[i].by = "interval"
       \/ \A i \in 1..Len(outcome.list) : outcome.list[i].by = "frequency"
    /\ \A i \in 2..Len(outcome.list) : outcome.list[i].by # "immediate"

\* A result holding the immediate timestamp and an event-anchored one.
C8_Witness ==
  /\ CallReturned
  /\ Len(outcome.list) >= 2
  /\ outcome.list[1].by = "immediate"
  /\ outcome.list[2].by = "event"

\* C9: when repeat.when includes the immediate code, a call whose caps admit a
\* timestamp emits one at orderedAt (at from without orderedAt) if that instant
\* is not before from, and no immediate timestamp if orderedAt is before from.
C9_ImmediateDose ==
  (/\ pc = "done" /\ ValidCall /\ HasRepeat /\ includesImmediate(Repeat)
   /\ ExpandedOf(Repeat, ConfigOf(options)).ok
   /\ NumIsFinite(Limit) /\ NumLe(Whole(1), StatedCap))
  => /\ outcome.kind = "returned"
     /\ IF ~HasOrderedAt \/ OrderedAt >= From
        THEN Cardinality({i \in 1..Len(outcome.list) :
                            /\ outcome.list[i].by = "immediate"
                            /\ InstantOf(outcome.list[i]) = BaseTime}) = 1
        ELSE \A i \in 1..Len(outcome.list) : outcome.list[i].by # "immediate"

\* C10: a fixed-interval schedule with no count cap and no day filter returns
\* exactly limit timestamps for every orderedAt not after from.
C10_IntervalReachesLimit ==
  (/\ pc = "done" /\ ValidCall /\ HasRepeat
   /\ ~HasAnchors(Repeat) /\ treatAsInterval(Repeat) /\ HasStepper(Repeat)
   /\ Repeat.count.k = "undef" /\ Len(Repeat.dayOfWeek) = 0
   /\ (HasOrderedAt => OrderedAt <= From)
   /\ NumIsFinite(Limit) /\ NumLe(Whole(1), Limit) /\ NumFloor(Limit) = Limit)
  => /\ outcome.kind = "returned"
     /\ NumEq(Whole(Len(outcome.list)), Limit)

\* The length of one period of a fixed-length unit, in ticks.
UnitSeconds(periodUnit) ==
  CASE periodUnit = "s" -> 1
    [] periodUnit = "min" -> 60
    [] periodUnit = "h" -> 3600
    [] periodUnit = "d" -> 86400
    [] periodUnit = "wk" -> 604800
PeriodTicks == Repeat.period * UnitSeconds(Repeat.periodUnit) * TicksPerSecond
\* The first point baseline + k * period, k >= 0, that is not before from.
FirstPoint ==
  IF BaseTime >= From THEN BaseTime
  ELSE BaseTime + ((From - BaseTime + PeriodTicks - 1) \div PeriodTicks) * PeriodTicks

\* The case of C11: a returned call on a fixed-interval schedule of a
\* fixed-length unit, without a day filter.
FixedIntervalCase ==
  /\ CallReturned /\ HasRepeat
  /\ ~HasAnchors(Repeat) /\ treatAsInterval(Repeat)
  /\ Repeat.period > 0
  /\ Repeat.periodUnit \in {"s", "min", "h", "d", "wk"}
  /\ Len(Repeat.dayOfWeek) = 0

WalkEnds == pc \in {"eventWalk", "frequencyWalk"} /\ pc' = "done"

\* C12: the event-anchored and the frequency day walks advance at most
\* limit * 31 local days from the local day of from and then return the
\* timestamps collected so far, also when no day yields a qualifying instant.
C12_WalkReturnsCollected ==
  [][/\ (pc' \in {"eventWalk", "frequencyWalk"}
          => \/ iterations' = 0
             \/ NumLe(Whole(iterations'), NumTimes(effectiveLimit', DaysPerLimit)))
     /\ (WalkEnds => /\ outcome'.kind = "returned"
                      /\ outcome'.list = Slice(results', effectiveLimit'))]_vars

\* The caller's tables (options over options.config) and the key of the call
\* in each of them.
CallerTables == ConfigOf(options).frequencyDefaults
CodeKey == IF IsSome(Timing.code) THEN ToUpperCase(Val(Timing.code)) ELSE ""
FrequencyKey == FreqKey(Repeat.frequency, Repeat.periodUnit)
\* The clock list of the one source the stated precedence picks.
SourceByPrecedence ==
  IF CodeKey \in DOMAIN CallerTables.byCode THEN CallerTables.byCode[CodeKey]
  ELSE IF FrequencyKey \in DOMAIN CallerTables.byFrequency
  THEN CallerTables.byFrequency[FrequencyKey]
  ELSE IF CodeKey \in DOMAIN DEFAULT_FREQUENCY_DEFAULTS.byCode
  THEN DEFAULT_FREQUENCY_DEFAULTS.byCode[CodeKey]
  ELSE IF FrequencyKey \in DOMAIN DEFAULT_FREQUENCY_DEFAULTS.byFrequency
  THEN DEFAULT_FREQUENCY_DEFAULTS.byFrequency[FrequencyKey]
  ELSE <<>>
\* A clock "HH:mm" of a table as the walk holds it.
ClockOfTable(clock) == <<clock[1], clock[2], 0>>

\* C13: in the pure-frequency shape the clocks walked are those of one source:
\* the caller's table entry for the timing code, else the caller's entry for
\* the freq:N/unit key, else the built-in defaults; no clock of a source of
\* lower precedence is walked.
C13_SingleSource ==
  pc = "frequencyWalk" =>
    {clocks[i] : i \in 1..Len(clocks)}
      = {ClockOfTable(SourceByPrecedence[i]) : i \in 1..Len(SourceByPrecedence)}

\* The options C14 is about: no from, no time zone in the options or in
\* options.config, or a priorCount that is not finite or is negative.
LacksRequired ==
  \/ options.from.k = "undef"
  \/ ~IsSome(TimeZoneOf(options))
  \/ /\ options.priorCount.k # "undef"
     /\ (~NumIsFinite(options.priorCount) \/ NumLt(options.priorCount, Whole(0)))

\* C14: a call whose options lack from, lack a time zone, or carry a
\* non-finite or negative priorCount throws and returns no list, whatever the
\* other options are, the limit included.
C14_ThrowsOnBadOptions ==
  (pc = "done" /\ LacksRequired) => outcome.kind = "threw"

(***************************************************************************)
(* The scheduler at rest, for the specifications of the parser             *)
(***************************************************************************)
SchedulerIdle ==
  /\ dosage = <<>> /\ options = <<>> /\ previous = None /\ pc = "idle"
  /\ priorCount = Undef /\ effectiveLimit = Undef
  /\ expanded = <<>> /\ clocks = <<>> /\ results = <<>>
  /\ currentDay = 0 /\ iterations = 0 /\ current = 0 /\ guard = 0
  /\ outcome = Running
schedulerVars == <<dosage, options, previous, pc, priorCount, effectiveLimit, expanded,
                   clocks, results, currentDay, iterations, current, guard, outcome>>

(***************************************************************************)
(* Site and PRN-reason coding (src/unnamed/part_012, src/unnamed/part_009) *)
(*                                                                         *)
(* parseSig and parseSigAsync run the PRN-reason pass and then the site    *)
(* pass on the ParsedSigInternal that parseInternal returned.  The model   *)
(* starts where parseInternal has returned: what it left for the passes is *)
(* the lookup request of each pass, and what the caller's options answer   *)
(* for that request (selection, map entry, resolvers, suggestion           *)
(* resolvers) is drawn from the families below.                            *)
(***************************************************************************)
\* The resolvers a caller can register in one list.
MaxResolvers == 2

\* What a callback can hand back: nothing, a definition, or a thenable that
\* settles later with nothing, with a definition, or with a rejection.
Null == [kind |-> "null"]
Definition(id) == [kind |-> "definition", id |-> id]
Fulfilled(value) == [status |-> "fulfilled", value |-> value]
Rejected == [status |-> "rejected"]
Thenable(settles) == [kind |-> "thenable", settles |-> settles]

ResolverKinds == {"null", "definition", "promiseNull", "promiseDefinition", "promiseRejects"}
\* resolver(request) of the callback registered at position index.
ReturnOf(kind, pass, phase, index) ==
  CASE kind = "null" -> Null
    [] kind = "definition" -> Definition(<<pass, phase, index>>)
    [] kind = "promiseNull" -> Thenable(Fulfilled(Null))
    [] kind = "promiseDefinition" -> Thenable(Fulfilled(Definition(<<pass, phase, index>>)))
    [] kind = "promiseRejects" -> Thenable(Rejected)

\* isPromise with no thenable recognised.
isPromiseNever(value) == FALSE
isPromise(value) == value.kind = "thenable"
\* if (result)
Truthy(value) == value.kind # "null"
\* An await that loses the value of what is not a thenable.
AwaitedThenablesOnly(value) ==
  IF value.kind = "thenable" THEN value.settles ELSE Fulfilled(Null)
\* await value
Awaited(value) == IF value.kind = "thenable" THEN value.settles ELSE Fulfilled(value)
\* A resolver loop that goes on after a definitive result.
BreaksNever(value) == FALSE
\* if (result) { resolution = result; break; }
Breaks(value) == Truthy(value)

\* toArray(options.siteCodeResolvers) and its like: the kinds of the callbacks
\* in registration order.
ResolverLists == UNION {[1..n -> ResolverKinds] : n \in 0..MaxResolvers}
SuggestionResolverLists == {<<>>} \cup {<<kind>> : kind \in ResolverKinds}

\* What one pass works from.
PassInput(request, isProbe, selection, customDefinition, defaultDefinition,
          resolvers, suggestionResolvers) ==
  [request |-> request, isProbe |-> isProbe, selection |-> selection,
   customDefinition |-> customDefinition, defaultDefinition |-> defaultDefinition,
   resolvers |-> resolvers, suggestionResolvers |-> suggestionResolvers]
NoRequest == PassInput(FALSE, FALSE, None, None, None, <<>>, <<>>)
Presets(pass) ==
  {<<None, None>>, <<Some(Definition(<<pass, "selection">>)), None>>,
   <<None, Some(Definition(<<pass, "map">>))>>}
PassInputs(pass) ==
  {PassInput(TRUE, isProbe, preset[1], preset[2], defaultDefinition, resolvers, suggestionResolvers) :
     isProbe \in BOOLEAN, preset \in Presets(pass),
     defaultDefinition \in {None, Some(Definition(<<pass, "default">>))},
     resolvers \in ResolverLists, suggestionResolvers \in SuggestionResolverLists}
\* Requests that leave everything to one resolver of each list.
ResolverOnlyInputs(pass) ==
  {PassInput(TRUE, FALSE, None, None, None, <<kind>>, <<suggestionKind>>) :
     kind \in ResolverKinds, suggestionKind \in ResolverKinds}

Modes == {"sync", "async"}
ResolutionOf(mode, prn, site) ==
  [mode |-> mode, pass |-> "prn", phase |-> "begin", index |-> 1,
   pending |-> None, found |-> None, suggestionMap |-> {},
   inputs |-> [prn |-> prn, site |-> site],
   coding |-> [prn |-> None, site |-> None],
   lookups |-> [prn |-> <<>>, site |-> <<>>],
   result |-> "running", earlier |-> None]

InitSiteOnly ==
  \E mode \in Modes, site \in PassInputs("site") : resolution = ResolutionOf(mode, NoRequest, site)
InitPrnOnly ==
  \E mode \in Modes, prn \in PassInputs("prn") : resolution = ResolutionOf(mode, prn, NoRequest)
InitBothPasses ==
  \E mode \in Modes, prn \in ResolverOnlyInputs("prn"), site \in ResolverOnlyInputs("site") :
    resolution = ResolutionOf(mode, prn, site)
ResolveInit ==
  /\ InitSiteOnly \/ InitPrnOnly \/ InitBothPasses
  /\ calls = <<>>
  /\ SchedulerIdle /\ ParserIdle /\ OthersIdle

PassInputOf == resolution.inputs[resolution.pass]
Running_(phase) ==
  /\ resolution # <<>>
  /\ resolution.result = "running"
  /\ resolution.pass \in {"prn", "site"}
  /\ resolution.phase = phase
  /\ resolution.pending = None

\* The pass returns: the next pass begins, or buildParseResult ends the call.
PassReturns(r) ==
  IF r.pass = "prn"
  THEN [r EXCEPT !.pass = "site", !.phase = "begin", !.index = 1,
                 !.found = None, !.suggestionMap = {}]
  ELSE [r EXCEPT !.pass = "end", !.phase = "end", !.result = "returned"]
\* A throw of the pass, or the rejection of its promise.
PassThrows(r) == [r EXCEPT !.result = "threw"]

Invoked(pass, phase, index, value) ==
  [event |-> "invoke", pass |-> pass, phase |-> phase, index |-> index, value |-> value]
Settled(pass, phase, index, settlement) ==
  [event |-> "settle", pass |-> pass, phase |-> phase, index |-> index, value |-> settlement]

\* selection ?? customDefinition
Preset(input) == IF IsSome(input.selection) THEN input.selection ELSE input.customDefinition

\* The head of a pass: the lookups are cleared, a pass without request
\* returns, and the resolvers are asked only when neither a selection nor a
\* map entry answers the request.
BeginPass ==
  /\ Running_("begin")
  /\ UNCHANGED <<schedulerVars, parserVars, otherVars, calls>>
  /\ LET r == [resolution EXCEPT !.lookups[resolution.pass] = <<>>]
         input == PassInputOf
     IN  resolution' =
           IF ~input.request THEN PassReturns(r)
           ELSE [r EXCEPT !.found = Preset(input),
                          !.index = 1,
                          !.phase = IF ~IsSome(Preset(input)) /\ Len(input.resolvers) > 0
                                    THEN "resolvers" ELSE "apply"]

\* What the resolver loop does with the value it holds for resolver index.
AfterResolver(r, value, count) ==
  [r EXCEPT !.found = IF Truthy(value) THEN Some(value) ELSE r.found,
            !.pending = None,
            !.index = r.index + 1,
            !.phase = IF Breaks(value) \/ r.index + 1 > count THEN "apply" ELSE "resolvers"]

\* One turn of the resolver loop of the synchronous passes.
ResolverSync ==
  /\ Running_("resolvers")
  /\ resolution.mode = "sync"
  /\ UNCHANGED <<schedulerVars, parserVars, otherVars>>
  /\ LET input == PassInputOf
         value == ReturnOf(input.resolvers[resolution.index], resolution.pass, "resolvers", resolution.index)
     IN  /\ calls' = Append(calls, Invoked(resolution.pass, "resolvers", resolution.index, value))
         /\ resolution' = IF isPromise(value) THEN PassThrows(resolution)
                          ELSE AfterResolver(resolution, value, Len(input.resolvers))

\* await resolver(request): the call, after which the pass is suspended.
ResolverCall ==
  /\ Running_("resolvers")
  /\ resolution.mode = "async"
  /\ UNCHANGED <<schedulerVars, parserVars, otherVars>>
  /\ LET value == ReturnOf(PassInputOf.resolvers[resolution.index], resolution.pass, "resolvers", resolution.index)
     IN  /\ calls' = Append(calls, Invoked(resolution.pass, "resolvers", resolution.index, value))
         /\ resolution' = [resolution EXCEPT !.pending = Some(value)]

\* await resolver(request): the awaited value settles and the loop goes on.
ResolverSettle ==
  /\ resolution # <<>>
  /\ resolution.result = "running"
  /\ resolution.phase = "resolvers"
  /\ IsSome(resolution.pending)
  /\ UNCHANGED <<schedulerVars, parserVars, otherVars>>
  /\ LET settlement == Awaited(Val(resolution.pending))
     IN  /\ calls' = Append(calls, Settled(resolution.pass, "resolvers", resolution.index, settlement))
         /\ resolution' = IF settlement.status = "rejected" THEN PassThrows(resolution)
                          ELSE AfterResolver(resolution, settlement.value, Len(PassInputOf.resolvers))

\* The suggestions a pass starts from: selection, map entry, default.
SeedSuggestions(input) ==
  {Val(o) : o \in {p \in {input.selection, input.customDefinition, input.defaultDefinition} : IsSome(p)}}

\* After the resolver loop: the bundled definition is the fallback, the
\* coding is applied or cleared, and suggestions are gathered only for a
\* probe or an unresolved request.
ApplyResolution ==
  /\ Running_("apply")
  /\ UNCHANGED <<schedulerVars, parserVars, otherVars, calls>>
  /\ LET input == PassInputOf
         found == IF IsSome(resolution.found) THEN resolution.found ELSE input.defaultDefinition
         r == [resolution EXCEPT !.found = found, !.coding[resolution.pass] = found]
         needsSuggestions == input.isProbe \/ ~IsSome(found)
     IN  resolution' =
           IF ~needsSuggestions THEN PassReturns(r)
           ELSE [r EXCEPT !.suggestionMap = SeedSuggestions(input),
                          !.index = 1,
                          !.phase = IF Len(input.suggestionResolvers) > 0
                                    THEN "suggestions" ELSE "push"]

\* collectSuggestionResult and the step of the suggestion loop.
AfterSuggestion(r, value, count) ==
  [r EXCEPT !.suggestionMap = IF Truthy(value) THEN r.suggestionMap \cup {value} ELSE r.suggestionMap,
            !.pending = None,
            !.index = r.index + 1,
            !.phase = IF r.index + 1 > count THEN "push" ELSE "suggestions"]

\* One turn of the suggestion loop of the synchronous passes.
SuggestionSync ==
  /\ Running_("suggestions")
  /\ resolution.mode = "sync"
  /\ UNCHANGED <<schedulerVars, parserVars, otherVars>>
  /\ LET input == PassInputOf
         value == ReturnOf(input.suggestionResolvers[resolution.index], resolution.pass, "suggestions", resolution.index)
     IN  /\ calls' = Append(calls, Invoked(resolution.pass, "suggestions", resolution.index, value))
         /\ resolution' = IF isPromise(value) THEN PassThrows(resolution)
                          ELSE AfterSuggestion(resolution, value, Len(input.suggestionResolvers))

SuggestionCall ==
  /\ Running_("suggestions")
  /\ resolution.mode = "async"
  /\ UNCHANGED <<schedulerVars, parserVars, otherVars>>
  /\ LET value == ReturnOf(PassInputOf.suggestionResolvers[resolution.index], resolution.pass, "suggestions", resolution.index)
     IN  /\ calls' = Append(calls, Invoked(resolution.pass, "suggestions", resolution.index, value))
         /\ resolution' = [resolution EXCEPT !.pending = Some(value)]

SuggestionSettle ==
  /\ resolution # <<>>
  /\ resolution.result = "running"
  /\ resolution.phase = "suggestions"
  /\ IsSome(resolution.pending)
  /\ UNCHANGED <<schedulerVars, parserVars, otherVars>>
  /\ LET settlement == Awaited(Val(resolution.pending))
     IN  /\ calls' = Append(calls, Settled(resolution.pass, "suggestions", resolution.index, settlement))
         /\ resolution' = IF settlement.status = "rejected" THEN PassThrows(resolution)
                          ELSE AfterSuggestion(resolution, settlement.value, Len(PassInputOf.suggestionResolvers))

\* The lookup is pushed when there are suggestions or the request is a probe.
PushLookups ==
  /\ Running_("push")
  /\ UNCHANGED <<schedulerVars, parserVars, otherVars, calls>>
  /\ LET r == IF resolution.suggestionMap # {} \/ PassInputOf.isProbe
              THEN [resolution EXCEPT !.lookups[resolution.pass] = <<resolution.suggestionMap>>]
              ELSE resolution
     IN  resolution' = PassReturns(r)

\* Every callback of the call hands back its result at once.
AllSynchronous(inputs) ==
  \A pass \in {"prn", "site"} :
    /\ \A i \in 1..Len(inputs[pass].resolvers) :
         inputs[pass].resolvers[i] \in {"null", "definition"}
    /\ \A i \in 1..Len(inputs[pass].suggestionResolvers) :
         inputs[pass].suggestionResolvers[i] \in {"null", "definition"}
\* What a call that has ended leaves to compare: the callbacks it invoked, in
\* order, and what it gave back.
Ended(r, log) ==
  [invoked |-> SelectSeq(log, LAMBDA call : call.event = "invoke"),
   coding |-> r.coding, lookups |-> r.lookups, result |-> r.result]
\* The caller repeats, through parseSigAsync, a parseSig call that has ended
\* and whose callbacks are all synchronous: same input, same options.
ParseSigAsyncAgain ==
  /\ resolution # <<>>
  /\ resolution.mode = "sync"
  /\ resolution.result # "running"
  /\ AllSynchronous(resolution.inputs)
  /\ resolution' =
       [ResolutionOf("async", resolution.inputs.prn, resolution.inputs.site)
          EXCEPT !.earlier = Some(Ended(resolution, calls))]
  /\ calls' = <<>>
  /\ UNCHANGED <<schedulerVars, parserVars, otherVars>>

ResolveNext ==
  \/ BeginPass
  \/ ResolverSync
  \/ ResolverCall
  \/ ResolverSettle
  \/ ApplyResolution
  \/ SuggestionSync
  \/ SuggestionCall
  \/ SuggestionSettle
  \/ PushLookups
  \/ ParseSigAsyncAgain

ResolveSpec == ResolveInit /\ [][ResolveNext]_vars

(***************************************************************************)
(* Properties of the coding passes                                         *)
(***************************************************************************)
\* The invocations of the log that handed back a thenable.
ThenableCalls ==
  {n \in 1..Len(calls) : calls[n].event = "invoke" /\ calls[n].value.kind = "thenable"}

\* C15: on the synchronous path, once an invoked site or PRN-reason resolver
\* or suggestion resolver has handed back a thenable, the call has thrown: it
\* never goes on to another callback and never returns a result.
C15_SyncThrowsOnPromise ==
  (resolution.mode = "sync" /\ ThenableCalls # {}) =>
    /\ resolution.result = "threw"
    /\ ThenableCalls = {Len(calls)}
\* A synchronous call threw on the thenable of a callback that was not the
\* first one invoked.
C15_Witness ==
  /\ resolution.mode = "sync"
  /\ resolution.result = "threw"
  /\ Len(calls) >= 2
  /\ Len(calls) \in ThenableCalls

\* The log entries of the resolver loop of a pass, in order.
ResolverEvents(pass) ==
  SelectSeq(calls, LAMBDA call : call.pass = pass /\ call.phase = "resolvers")
\* A settlement that ends the resolver loop with a result.
Definitive(call) ==
  call.event = "settle" /\ call.value.status = "fulfilled" /\ call.value.value.kind # "null"
\* The log of one resolver loop reads invoke 1, settle 1, invoke 2, settle 2,
\* and so on, and nothing follows a definitive settlement.
OneAtATime(events) ==
  \A n \in 1..Len(events) :
    /\ events[n].event = (IF n % 2 = 1 THEN "invoke" ELSE "settle")
    /\ events[n].index = (n + 1) \div 2
    /\ n > 1 => ~Definitive(events[n - 1])
\* The resolver loop of the pass is over.
LoopOver(pass) ==
  \/ resolution.pass = "end"
  \/ resolution.pass = "site" /\ pass = "prn"
  \/ resolution.pass = pass /\ resolution.phase \in {"suggestions", "push"}
\* The first definitive settlement of a log, if any.
FirstDefinitive(events) ==
  LET hits == {n \in 1..Len(events) : Definitive(events[n])}
  IN  IF hits = {} THEN None
      ELSE Some(events[CHOOSE n \in hits : \A m \in hits : n <= m].value.value)

\* C16: on the asynchronous path the resolvers of a pass are invoked one at
\* a time in registration order, resolver i+1 only after resolver i settled
\* with no result, none after the first definitive result, and that first
\* result is the coding the pass applies.
C16_SequentialResolvers ==
  resolution.mode = "async" =>
    \A pass \in {"prn", "site"} :
      /\ OneAtATime(ResolverEvents(pass))
      /\ (LoopOver(pass) /\ IsSome(FirstDefinitive(ResolverEvents(pass)))) =>
           resolution.coding[pass] = FirstDefinitive(ResolverEvents(pass))
\* An asynchronous pass applied the result of its first resolver although a
\* second resolver was registered, and the second was never invoked.
C16_Witness ==
  /\ resolution.mode = "async"
  /\ resolution.pass = "end"
  /\ Len(resolution.inputs.site.resolvers) = 2
  /\ Len(ResolverEvents("site")) = 2
  /\ resolution.coding.site = Some(Definition(<<"site", "resolvers", 1>>))

(***************************************************************************)
(* parseInternal (src/unnamed/part_012, tables of src/unnamed/part_005)    *)
(*                                                                         *)
(* The inputs are lower-case words separated by single blanks, without    *)
(* "prn" or "as needed".  The meal, clock, expansion and route families    *)
(* hold no digit and no punctuation, so that tokenize gives one Token per  *)
(* word; the period and discouraged families hold "q", numbers, ranges and *)
(* dotted abbreviations, which tokenize splits and normalizeTokenLower     *)
(* strips as the tables below say.  A token is known here by its place     *)
(* counted from 1, so place n is Token.index n - 1.  For the words of the  *)
(* model the rules that need an eye abbreviation, a weekday, a count       *)
(* keyword, a unit, a frequency word or the connector of a numeric cadence *)
(* never match, the PRN passes do nothing (asNeeded stays unset) and       *)
(* collectAdditionalInstructions returns at line 3230 for want of a        *)
(* separator; these are left out.  No caller map (whenMap, routeMap,       *)
(* unitMap, siteCodeMap) is given.                                         *)
(***************************************************************************)
\* The tokens of one input.
MaxTokens == 3

\* A number that may carry decimals is counted in hundred-thousandths: WholeOne
\* stands for 1.  Every number of the inputs, and every product the rules
\* form of them, is a whole count of these.
WholeOne == 1000 * 100
IsInteger(value) == value % WholeOne = 0
\* Math.round(value * 1000) / 1000 for a value that is not negative: the
\* nearest multiple of a thousandth, a half going up.
RoundTo3(value) ==
  ((value + WholeOne \div 2000) \div (WholeOne \div 1000)) * (WholeOne \div 1000)


\* TIMING_ABBREVIATIONS: the entries the words of the model can hit.
\* A field a descriptor leaves out is None.  period is counted in WholeOne.
FrequencyDescriptor(code, frequency, period, periodUnit, discouraged) ==
  [code |-> code, frequency |-> frequency, period |-> Some(period * WholeOne),
   periodUnit |-> Some(periodUnit), discouraged |-> discouraged]
TIMING_ABBREVIATIONS ==
  [qd |-> FrequencyDescriptor(Some("QD"), Some(1), 1, "d", Some("QD")),
   qod |-> FrequencyDescriptor(Some("QOD"), None, 2, "d", Some("QOD")),
   ad |-> FrequencyDescriptor(None, None, 2, "d", Some("AD")),
   bid |-> FrequencyDescriptor(Some("BID"), Some(2), 1, "d", None),
   tid |-> FrequencyDescriptor(Some("TID"), Some(3), 1, "d", None),
   qid |-> FrequencyDescriptor(Some("QID"), Some(4), 1, "d", None),
   q2h |-> FrequencyDescriptor(Some("Q2H"), None, 2, "h", None)]
\* DISCOURAGED_TOKENS (src/unnamed/part_005, line 444).
DISCOURAGED_TOKENS ==
  [qd |-> "QD", qod |-> "QOD", od |-> "OD", bld |-> "BLD", ad |-> "AD"]
    @@ ("b-l-d" :> "BLD")

\* EVENT_TIMING_TOKENS: the one-word keys.
EVENT_TIMING_TOKENS ==
  [ac |-> "AC", acm |-> "ACM", acl |-> "ACD", acd |-> "ACD", acv |-> "ACV",
   pc |-> "PC", pcm |-> "PCM", pcl |-> "PCD", pcd |-> "PCD", pcv |-> "PCV",
   wm |-> "C", cm |-> "CM", cd |-> "CD", cv |-> "CV",
   am |-> "MORN", morning |-> "MORN", morn |-> "MORN", noon |-> "NOON",
   pm |-> "EVE", evening |-> "EVE", night |-> "NIGHT",
   hs |-> "HS", bedtime |-> "HS", wake |-> "WAKE", waking |-> "WAKE", stat |-> "IMD"]

MEAL_KEYWORDS ==
  [breakfast |-> [pc |-> "PCM", ac |-> "ACM"],
   lunch |-> [pc |-> "PCD", ac |-> "ACD"],
   dinner |-> [pc |-> "PCV", ac |-> "ACV"],
   supper |-> [pc |-> "PCV", ac |-> "ACV"]]
MEAL_CONTEXT_CONNECTORS == {"and", "or", "&", "+", "plus"}

\* DEFAULT_ROUTE_SYNONYMS by phrase: some of the registered variants.
DEFAULT_ROUTE_SYNONYMS ==
  (<<"po">> :> "Oral route") @@ (<<"oral">> :> "Oral route") @@
  (<<"by", "mouth">> :> "Oral route") @@ (<<"per", "os">> :> "Oral route") @@
  (<<"iv">> :> "Intravenous route") @@ (<<"iv", "push">> :> "Intravenous route") @@
  (<<"im">> :> "Intramuscular route") @@ (<<"in">> :> "Nasal route") @@
  (<<"top">> :> "Topical route") @@ (<<"pr">> :> "Per rectum") @@
  (<<"rectal">> :> "Per rectum") @@ (<<"vaginal">> :> "Per vagina")

BODY_SITE_HINTS ==
  {"left", "right", "bilateral", "arm", "arms", "leg", "legs", "thigh", "thighs",
   "shoulder", "shoulders", "hand", "hands", "foot", "feet", "eye", "eyes",
   "ear", "ears", "nostril", "nostrils", "abdomen", "belly", "cheek", "cheeks",
   "upper", "lower", "forearm", "back", "mouth", "tongue", "tongues", "gum", "gums",
   "tooth", "teeth", "nose", "nares", "hair", "skin", "scalp", "face", "forehead",
   "chin", "neck", "buttock", "buttocks", "gluteal", "glute", "muscle", "muscles",
   "vein", "veins", "vagina", "vaginal", "penis", "penile", "rectum", "rectal",
   "anus", "perineum", "temple", "temples"}
SITE_CONNECTORS == {"to", "in", "into", "on", "onto", "at"}
SITE_FILLER_WORDS == {"the", "a", "an", "your", "his", "her", "their", "my"}
ROUTE_DESCRIPTOR_FILLER_WORDS == {"per", "by", "via", "the", "a", "an"}
SPECIFIC_MEAL_TIMINGS == {"ACM", "ACD", "ACV", "PCM", "PCD", "PCV", "CM", "CD", "CV"}

\* DEFAULT_EVENT_TIMING_WEIGHTS, in seconds of the day.
DEFAULT_EVENT_TIMING_WEIGHTS ==
  ("IMD" :> 0) @@ ("WAKE" :> 6 * 3600) @@ ("PHS" :> 6 * 3600 + 15 * 60) @@
  ("MORN.early" :> 7 * 3600) @@ ("AC" :> 7 * 3600 + 30 * 60) @@
  ("ACM" :> 7 * 3600 + 45 * 60) @@ ("MORN" :> 8 * 3600) @@
  ("CM" :> 8 * 3600 + 15 * 60) @@ ("C" :> 8 * 3600 + 30 * 60) @@
  ("PCM" :> 9 * 3600) @@ ("PC" :> 9 * 3600 + 15 * 60) @@
  ("MORN.late" :> 10 * 3600 + 30 * 60) @@ ("ACD" :> 11 * 3600 + 45 * 60) @@
  ("NOON" :> 12 * 3600) @@ ("CD" :> 12 * 3600 + 15 * 60) @@
  ("PCD" :> 12 * 3600 + 45 * 60) @@ ("AFT.early" :> 13 * 3600 + 30 * 60) @@
  ("AFT" :> 15 * 3600) @@ ("AFT.late" :> 16 * 3600 + 30 * 60) @@
  ("ACV" :> 17 * 3600 + 30 * 60) @@ ("CV" :> 18 * 3600) @@
  ("PCV" :> 19 * 3600) @@ ("EVE.early" :> 19 * 3600 + 30 * 60) @@
  ("EVE" :> 20 * 3600) @@ ("EVE.late" :> 21 * 3600) @@
  ("NIGHT" :> 22 * 3600) @@ ("HS" :> 22 * 3600 + 30 * 60)

\* A string is the sequence of its characters.
DigitValue ==
  ("0" :> 0) @@ ("1" :> 1) @@ ("2" :> 2) @@ ("3" :> 3) @@ ("4" :> 4) @@
  ("5" :> 5) @@ ("6" :> 6) @@ ("7" :> 7) @@ ("8" :> 8) @@ ("9" :> 9)
\* \d{1,2} and \d{2}
AllDigits(text) == \A n \in 1..Len(text) : text[n] \in DOMAIN DigitValue
\* Number(text) of one or two digits.
NumberOfDigits(text) ==
  IF Len(text) = 1 THEN DigitValue[text[1]]
  ELSE 10 * DigitValue[text[1]] + DigitValue[text[2]]
\* The length of the hour group that /^(\d{1,2}):(\d{2})(?::(\d{2}))?$/ can take.
HourDigits(clock) == IF Len(clock) >= 2 /\ clock[2] = ":" THEN 1 ELSE 2
ClockMatches(clock, h) ==
  /\ Len(clock) \in {h + 3, h + 6}
  /\ AllDigits(SubSeq(clock, 1, h))
  /\ clock[h + 1] = ":"
  /\ AllDigits(SubSeq(clock, h + 2, h + 3))
  /\ Len(clock) = h + 6 => (clock[h + 4] = ":" /\ AllDigits(SubSeq(clock, h + 5, h + 6)))
ClockSeconds(clock, h) ==
  LET hour == NumberOfDigits(SubSeq(clock, 1, h))
      minute == NumberOfDigits(SubSeq(clock, h + 2, h + 3))
      second == IF Len(clock) = h + 6 THEN NumberOfDigits(SubSeq(clock, h + 5, h + 6)) ELSE 0
  IN  IF hour > 23 \/ minute > 59 \/ second > 59 THEN None
      ELSE Some(hour * 3600 + minute * 60 + second)
parseClockToSeconds(clock) ==
  IF ClockMatches(clock, HourDigits(clock)) THEN ClockSeconds(clock, HourDigits(clock)) ELSE None

\* The weight of a code no table knows.
UnknownWeight == 10000
DefaultWeight(code) ==
  IF code \in DOMAIN DEFAULT_EVENT_TIMING_WEIGHTS THEN DEFAULT_EVENT_TIMING_WEIGHTS[code]
  ELSE UnknownWeight
computeWhenWeight(code, opts) ==
  IF code \in DOMAIN opts.eventClock /\ opts.eventClock[code] # <<>>
       /\ IsSome(parseClockToSeconds(opts.eventClock[code]))
  THEN Val(parseClockToSeconds(opts.eventClock[code]))
  ELSE DefaultWeight(code)

\* arrayIncludes
Includes(target, code) == \E n \in 1..Len(target) : target[n] = code
addWhen(target, code) == IF Includes(target, code) THEN target ELSE Append(target, code)
removeWhen(target, code) == SelectSeq(target, LAMBDA c : c # code)
RECURSIVE AddAllWhen(_, _)
AddAllWhen(target, codes) ==
  IF codes = <<>> THEN target ELSE AddAllWhen(addWhen(target, Head(codes)), Tail(codes))

\* The comparator with ties taken last-seen first.
WeightedBeforeTiesReversed(a, b) ==
  IF a.weight # b.weight THEN a.weight < b.weight ELSE a.index > b.index
\* The comparator of sortWhenValues: a sorts before b.
WeightedBefore(a, b) ==
  IF a.weight # b.weight THEN a.weight < b.weight ELSE a.index < b.index
RECURSIVE InsertWeighted(_, _)
InsertWeighted(sorted, entry) ==
  IF sorted = <<>> THEN <<entry>>
  ELSE IF WeightedBefore(entry, Head(sorted)) THEN <<entry>> \o sorted
  ELSE <<Head(sorted)>> \o InsertWeighted(Tail(sorted), entry)
RECURSIVE SortWeighted(_, _)
SortWeighted(sorted, rest) ==
  IF rest = <<>> THEN sorted ELSE SortWeighted(InsertWeighted(sorted, Head(rest)), Tail(rest))
sortWhenValues(when, opts) ==
  IF Len(when) < 2 THEN when
  ELSE LET weighted == [n \in 1..Len(when) |->
                          [code |-> when[n], weight |-> computeWhenWeight(when[n], opts), index |-> n]]
           sorted == SortWeighted(<<>>, weighted)
       IN  [n \in 1..Len(when) |-> sorted[n].code]

\* convertSpecifics of reconcileMealTimingSpecificity, one mapping at a time.
RECURSIVE ConvertMappings(_, _)
ConvertMappings(when, mappings) ==
  IF mappings = <<>> THEN when
  ELSE ConvertMappings(
         IF Includes(when, Head(mappings)[1])
         THEN addWhen(removeWhen(when, Head(mappings)[1]), Head(mappings)[2])
         ELSE when,
         Tail(mappings))
convertSpecifics(when, base, mappings) ==
  IF ~Includes(when, base) THEN when
  ELSE IF \E n \in 1..Len(mappings) : Includes(when, mappings[n][1])
  THEN removeWhen(ConvertMappings(when, mappings), base)
  ELSE when
reconcileMealTimingSpecificity(when) ==
  convertSpecifics(
    convertSpecifics(when, "AC", <<<<"CM", "ACM">>, <<"CD", "ACD">>, <<"CV", "ACV">>>>),
    "PC", <<<<"CM", "PCM">>, <<"CD", "PCD">>, <<"CV", "PCV">>>>)

\* computeMealExpansions for a frequency of 1 to 4.
MealTriple(base) ==
  CASE base = "before" -> <<"ACM", "ACD", "ACV">>
    [] base = "after" -> <<"PCM", "PCD", "PCV">>
    [] base = "with" -> <<"CM", "CD", "CV">>
computeMealExpansions(base, frequency, pairPreference) ==
  LET triple == MealTriple(base)
  IN  CASE frequency = 1 -> <<triple[1]>>
        [] frequency = 2 -> IF pairPreference = "breakfast+lunch"
                            THEN <<triple[1], triple[2]>> ELSE <<triple[1], triple[3]>>
        [] frequency = 3 -> triple
        [] OTHER -> triple \o <<"HS">>
\* The replacements of expandMealTimings, applied in order.
RECURSIVE ReplaceGenerals(_, _, _, _)
ReplaceGenerals(when, generals, frequency, pairPreference) ==
  IF generals = <<>> THEN when
  ELSE ReplaceGenerals(
         AddAllWhen(removeWhen(when, Head(generals)[1]),
                    computeMealExpansions(Head(generals)[2], frequency, pairPreference)),
         Tail(generals), frequency, pairPreference)
expandMealTimings(sig, opts) ==
  IF ~opts.smartMealExpansion THEN sig.when
  ELSE IF sig.when = <<>> THEN sig.when
  ELSE IF \E n \in 1..Len(sig.when) : sig.when[n] \in SPECIFIC_MEAL_TIMINGS THEN sig.when
  ELSE IF ~IsSome(sig.frequency) \/ Val(sig.frequency) < 1 \/ Val(sig.frequency) > 4 THEN sig.when
  ELSE IF IsSome(sig.period) /\ IsSome(sig.periodUnit)
            /\ (Val(sig.periodUnit) # "d" \/ Val(sig.period) # WholeOne) THEN sig.when
  ELSE IF IsSome(sig.period) /\ ~IsSome(sig.periodUnit) /\ Val(sig.period) # WholeOne THEN sig.when
  ELSE IF IsSome(sig.periodUnit) /\ Val(sig.periodUnit) # "d" THEN sig.when
  ELSE ReplaceGenerals(
         sig.when,
         SelectSeq(<<<<"AC", "before">>, <<"PC", "after">>, <<"C", "with">>>>,
                   LAMBDA g : Includes(sig.when, g[1])),
         Val(sig.frequency),
         IF IsSome(opts.twoPerDayPair) THEN Val(opts.twoPerDayPair) ELSE "breakfast+dinner")

\* The ParsedSigInternal of line 1706, in the fields the rules below touch.
\* seen is not a field of the code: it lists the codes in the order addWhen
\* first took them.
NewInternal ==
  [consumed |-> {}, when |-> <<>>, seen |-> <<>>,
   timingCode |-> None, frequency |-> None, period |-> None, periodUnit |-> None,
   routeCode |-> None, siteTokenIndices |-> {}, siteText |-> None,
   periodMax |-> None, warnings |-> <<>>]
\* internal.when replaced, with the codes new to it noted as seen.
WithWhen(sig, when) ==
  [sig EXCEPT !.when = when,
              !.seen = AddAllWhen(sig.seen, when)]
\* mark(internal.consumed, token) for each of the places.
Consume(sig, places) == [sig EXCEPT !.consumed = sig.consumed \cup places]
\* The log of mark() calls grows by the places a rule claims, in call order.
Claimed(log, rule, places) ==
  log \o [n \in 1..Len(places) |-> [rule |-> rule, place |-> places[n]]]

\* The words that carry a digit or punctuation, by what the patterns of the
\* code make of them.  parseFloat of a number text:
ParsedNumbers ==
  ("0.5" :> WholeOne \div 2) @@ ("1.5" :> WholeOne + WholeOne \div 2) @@ ("2" :> 2 * WholeOne)
    @@ ("2.5" :> 2 * WholeOne + WholeOne \div 2) @@ ("0.00001" :> 1)
parseFloat(text) == ParsedNumbers[text]
\* /^[0-9]+(?:\.[0-9]+)?$/ (lines 686, 1611, 2131).
IsNumberWord(word) == word \in DOMAIN ParsedNumbers
\* /^([0-9]+(?:\.[0-9]+)?)-([0-9]+(?:\.[0-9]+)?)$/ (line 1674).
RangeWords ==
  ("1.5-2.5" :> <<"1.5", "2.5">>) @@ ("0.5-1.5" :> <<"0.5", "1.5">>)
parseNumericRange(word) ==
  IF word \in DOMAIN RangeWords
  THEN Some([low |-> parseFloat(RangeWords[word][1]), high |-> parseFloat(RangeWords[word][2])])
  ELSE None
\* /^q([0-9]+(?:\.[0-9]+)?)([a-z]+)$/ (line 1453).
CompactWords ==
  ("q2h" :> <<"2", "h">>) @@ ("q0.5h" :> <<"0.5", "h">>) @@ ("q0.00001h" :> <<"0.00001", "h">>)
\* /^q([0-9]+(?:\.[0-9]+)?)$/ (line 1463).
ValueOnlyWords == "q2" :> "2"
\* /^q([0-9]+(?:\.[0-9]+)?)-([0-9]+(?:\.[0-9]+)?)([A-Za-z]+)$/i (line 1038).
QRangeWords ==
  ("q1.5-2.5min" :> <<"1.5-2.5", "min">>) @@ ("q0.5-1.5h" :> <<"0.5-1.5", "h">>)
\* token.lower.replace(/[.{};]/g, ""): the words that hold one of these.
Punctuated == ("qd." :> "qd") @@ ("q.d." :> "qd") @@ ("q.o.d." :> "qod")
normalizeTokenLower(word) == IF word \in DOMAIN Punctuated THEN Punctuated[word] ELSE word

\* splitToken: a compact q-range comes apart into "q", the range and the
\* unit; no other word of the inputs is a number followed by letters.
splitToken(raw) ==
  IF raw \in DOMAIN QRangeWords THEN <<"q">> \o QRangeWords[raw] ELSE <<raw>>
\* tokenize for words separated by single blanks: none of its replacements
\* finds a "/", a unit after a digit, or a blank next to a "-".
RECURSIVE tokenize(_)
tokenize(raw) ==
  IF raw = <<>> THEN <<>> ELSE splitToken(Head(raw)) \o tokenize(Tail(raw))

mapIntervalUnit(word) ==
  IF word \in {"min", "mins", "minute", "minutes", "m"} THEN Some("min")
  ELSE IF word \in {"h", "hr", "hrs", "hour", "hours"} THEN Some("h")
  ELSE IF word \in {"d", "day", "days"} THEN Some("d")
  ELSE IF word \in {"wk", "w", "week", "weeks"} THEN Some("wk")
  ELSE IF word \in {"mo", "month", "months"} THEN Some("mo")
  ELSE None

normalizePeriodValue(value, unit) ==
  IF unit = "h" /\ (~IsInteger(value) \/ value < WholeOne)
  THEN [value |-> RoundTo3(value * 60), unit |-> "min"]
  ELSE [value |-> value, unit |-> unit]
normalizePeriodRange(low, high, unit) ==
  IF unit = "h" /\ (~IsInteger(low) \/ ~IsInteger(high) \/ low < WholeOne \/ high < WholeOne)
  THEN [low |-> RoundTo3(low * 60), high |-> RoundTo3(high * 60), unit |-> "min"]
  ELSE [low |-> low, high |-> high, unit |-> unit]

\* maybeAssignTimingCode: the key q<value><suffix> of TIMING_ABBREVIATIONS.
\* Of the periods the inputs give, only 2 h has a key.
CadenceKey(value, unit) ==
  IF value = 2 * WholeOne /\ unit = "h" THEN Some("q2h") ELSE None
maybeAssignTimingCode(sig, value, unit) ==
  LET key == CadenceKey(value, unit)
  IN  IF IsSome(key) /\ IsSome(TIMING_ABBREVIATIONS[Val(key)].code) /\ ~IsSome(sig.timingCode)
      THEN [sig EXCEPT !.timingCode = TIMING_ABBREVIATIONS[Val(key)].code]
      ELSE sig
\* The defaults applyPeriod fills in after the period is set.
PeriodDefaults(sig, value, unit) ==
  IF unit = "d" /\ value = WholeOne /\ ~IsSome(sig.frequency) THEN [sig EXCEPT !.frequency = Some(1)]
  ELSE IF unit = "wk" /\ value = WholeOne /\ ~IsSome(sig.timingCode) THEN [sig EXCEPT !.timingCode = Some("WK")]
  ELSE IF unit = "mo" /\ value = WholeOne /\ ~IsSome(sig.timingCode) THEN [sig EXCEPT !.timingCode = Some("MO")]
  ELSE sig
SetPeriod(sig, normalized) ==
  PeriodDefaults(
    maybeAssignTimingCode([sig EXCEPT !.period = Some(normalized.value),
                                      !.periodUnit = Some(normalized.unit)],
                          normalized.value, normalized.unit),
    normalized.value, normalized.unit)
applyPeriod(sig, period, unit) == SetPeriod(sig, normalizePeriodValue(period, unit))

\* checkDiscouraged: the call throws, or returns with or without a warning.
checkDiscouraged(word, opts) ==
  IF word \notin DOMAIN DISCOURAGED_TOKENS THEN [threw |-> FALSE, warning |-> None]
  ELSE IF opts.allowDiscouraged = Some(FALSE) THEN [threw |-> TRUE, warning |-> None]
  ELSE [threw |-> FALSE, warning |-> Some(DISCOURAGED_TOKENS[word])]
PushWarning(sig, check) ==
  IF IsSome(check.warning) THEN [sig EXCEPT !.warnings = Append(sig.warnings, Val(check.warning))]
  ELSE sig
\* applyFrequencyDescriptor without its mark(): the fields the descriptor has
\* replace those of internal; the others stay as they are.
DescriptorFields(sig, descriptor) ==
  [sig EXCEPT !.timingCode = IF IsSome(descriptor.code) THEN descriptor.code ELSE @,
              !.frequency = IF IsSome(descriptor.frequency) THEN descriptor.frequency ELSE @,
              !.period = IF IsSome(descriptor.period) THEN descriptor.period ELSE @,
              !.periodUnit = IF IsSome(descriptor.periodUnit) THEN descriptor.periodUnit ELSE @]
DescriptorCheck(word, descriptor, opts) ==
  IF IsSome(descriptor.discouraged) THEN checkDiscouraged(word, opts)
  ELSE [threw |-> FALSE, warning |-> None]
applyFrequencyDescriptor(sig, word, descriptor, opts) ==
  DescriptorFields(PushWarning(sig, DescriptorCheck(word, descriptor, opts)), descriptor)

\* parseSeparatedQ at place index: whether it applied, the internal it
\* leaves and the places it marked, in call order.
NotApplied(sig) == [applied |-> FALSE, internal |-> sig, marked |-> <<>>]
SeparatedRange(sig, words, index, range) ==
  IF index + 2 > Len(words) \/ ~IsSome(mapIntervalUnit(words[index + 2])) THEN NotApplied(sig)
  ELSE LET normalized == normalizePeriodRange(range.low, range.high,
                                              Val(mapIntervalUnit(words[index + 2])))
       IN  [applied |-> TRUE,
            internal |-> [sig EXCEPT !.period = Some(normalized.low),
                                     !.periodMax = Some(normalized.high),
                                     !.periodUnit = Some(normalized.unit)],
            marked |-> <<index, index + 1, index + 2>>]
SeparatedUnit(sig, words, index) ==
  IF ~IsSome(mapIntervalUnit(words[index + 1])) THEN NotApplied(sig)
  ELSE [applied |-> TRUE,
        internal |-> applyPeriod(sig, WholeOne, Val(mapIntervalUnit(words[index + 1]))),
        marked |-> <<index, index + 1>>]
SeparatedNumber(sig, words, index) ==
  IF index + 2 > Len(words) \/ ~IsSome(mapIntervalUnit(words[index + 2])) THEN NotApplied(sig)
  ELSE [applied |-> TRUE,
        internal |-> applyPeriod(sig, parseFloat(words[index + 1]),
                                 Val(mapIntervalUnit(words[index + 2]))),
        marked |-> <<index, index + 1, index + 2>>]
parseSeparatedQ(sig, words, index) ==
  IF index + 1 > Len(words) \/ (index + 1) \in sig.consumed THEN NotApplied(sig)
  ELSE IF IsSome(parseNumericRange(words[index + 1]))
  THEN SeparatedRange(sig, words, index, Val(parseNumericRange(words[index + 1])))
  ELSE IF ~IsNumberWord(words[index + 1]) THEN SeparatedUnit(sig, words, index)
  ELSE SeparatedNumber(sig, words, index)

\* tryParseCompactQ at place index.
CompactValueOnly(sig, words, index) ==
  IF index + 1 > Len(words) \/ (index + 1) \in sig.consumed
       \/ ~IsSome(mapIntervalUnit(words[index + 1])) THEN NotApplied(sig)
  ELSE [applied |-> TRUE,
        internal |-> applyPeriod(sig, parseFloat(ValueOnlyWords[words[index]]),
                                 Val(mapIntervalUnit(words[index + 1]))),
        marked |-> <<index, index + 1>>]
tryParseCompactQ(sig, words, index) ==
  IF words[index] \in DOMAIN CompactWords /\ IsSome(mapIntervalUnit(CompactWords[words[index]][2]))
  THEN [applied |-> TRUE,
        internal |-> applyPeriod(sig, parseFloat(CompactWords[words[index]][1]),
                                 Val(mapIntervalUnit(CompactWords[words[index]][2]))),
        marked |-> <<index>>]
  ELSE IF words[index] \in DOMAIN ValueOnlyWords THEN CompactValueOnly(sig, words, index)
  ELSE NotApplied(sig)

\* The lookahead loop of parseMealContext from place lookahead on; acc holds
\* the consumed set, when, the places marked so far and the converted count.
RECURSIVE MealLookahead(_, _, _, _)
MealLookahead(words, lookahead, code, acc) ==
  IF lookahead > Len(words) THEN acc
  ELSE IF lookahead \in acc.consumed THEN MealLookahead(words, lookahead + 1, code, acc)
  ELSE IF words[lookahead] \in MEAL_CONTEXT_CONNECTORS
  THEN MealLookahead(words, lookahead + 1, code,
         [acc EXCEPT !.consumed = acc.consumed \cup {lookahead},
                     !.marked = Append(acc.marked, lookahead)])
  ELSE IF words[lookahead] \notin DOMAIN MEAL_KEYWORDS THEN acc
  ELSE MealLookahead(words, lookahead + 1, code,
         [acc EXCEPT !.when = addWhen(acc.when,
                                 IF code = "PC" THEN MEAL_KEYWORDS[words[lookahead]].pc
                                 ELSE IF code = "AC" THEN MEAL_KEYWORDS[words[lookahead]].ac
                                 ELSE code),
                     !.consumed = acc.consumed \cup {lookahead},
                     !.marked = Append(acc.marked, lookahead),
                     !.converted = acc.converted + 1])
\* parseMealContext: a marker followed by meal words turns into their
\* specific codes, a marker alone is taken as its own code.
parseMealContext(sig, words, index, code) ==
  LET acc == MealLookahead(words, index + 1, code,
               [consumed |-> sig.consumed, when |-> sig.when, marked |-> <<>>, converted |-> 0])
  IN  [when |-> IF acc.converted > 0 THEN acc.when ELSE addWhen(acc.when, code),
       marked |-> Append(acc.marked, index)]

\* tryRouteSynonym: the span from place start that names a route.
SpanNamesRoute(words, consumed, start, span) ==
  /\ \A n \in start..(start + span - 1) : n \notin consumed
  /\ SubSeq(words, start, start + span - 1) \in DOMAIN DEFAULT_ROUTE_SYNONYMS
  /\ ~(/\ SubSeq(words, start, start + span - 1) = <<"in">>
       /\ start > 1
       /\ (start - 1) \notin consumed)
RouteSpans(words, consumed, start) ==
  {span \in 1..Min2(24, Len(words) - start + 1) : SpanNamesRoute(words, consumed, start, span)}
\* The longest such span, 0 when there is none.
RouteSpan(words, consumed, start) ==
  IF RouteSpans(words, consumed, start) = {} THEN 0
  ELSE CHOOSE span \in RouteSpans(words, consumed, start) :
         \A other \in RouteSpans(words, consumed, start) : other <= span

\* setRoute
setRoute(sig, code) == [sig EXCEPT !.routeCode = Some(code)]
\* applyRouteDescriptor: refuses a code that differs from the route held.
applyRouteDescriptor(sig, code) ==
  IF IsSome(sig.routeCode) /\ Val(sig.routeCode) # code
  THEN [applied |-> FALSE, internal |-> sig]
  ELSE [applied |-> TRUE, internal |-> setRoute(sig, code)]
\* normalizeRouteDescriptorPhrase
normalizeRouteDescriptorPhrase(phrase) ==
  SelectSeq(phrase, LAMBDA word : word \notin ROUTE_DESCRIPTOR_FILLER_WORDS)
\* DEFAULT_ROUTE_DESCRIPTOR_SYNONYMS
DescriptorKeys(normalized) ==
  {key \in DOMAIN DEFAULT_ROUTE_SYNONYMS : normalizeRouteDescriptorPhrase(key) = normalized}
\* maybeApplyRouteDescriptor without a caller's routeMap.
ApplyDescriptorFallback(sig, phrase, normalized) ==
  IF normalized # <<>> /\ normalized # phrase /\ DescriptorKeys(normalized) # {}
  THEN applyRouteDescriptor(sig, DEFAULT_ROUTE_SYNONYMS[CHOOSE key \in DescriptorKeys(normalized) : TRUE])
  ELSE [applied |-> FALSE, internal |-> sig]
maybeApplyRouteDescriptor(sig, phrase) ==
  IF phrase = <<>> THEN [applied |-> FALSE, internal |-> sig]
  ELSE IF phrase \in DOMAIN DEFAULT_ROUTE_SYNONYMS
            /\ applyRouteDescriptor(sig, DEFAULT_ROUTE_SYNONYMS[phrase]).applied
  THEN applyRouteDescriptor(sig, DEFAULT_ROUTE_SYNONYMS[phrase])
  ELSE ApplyDescriptorFallback(sig, phrase, normalizeRouteDescriptorPhrase(phrase))

\* SITE_UNIT_ROUTE_HINTS: the one-word patterns, in order.
SITE_UNIT_ROUTE_HINTS ==
  <<<<{"eye", "eyes"}, "Ophthalmic route">>, <<{"eyelid", "eyelids"}, "Ophthalmic route">>,
    <<{"ear", "ears"}, "Otic route">>, <<{"nostril", "nostrils"}, "Nasal route">>,
    <<{"nare", "nares"}, "Nasal route">>, <<{"nose"}, "Nasal route">>,
    <<{"mouth"}, "Oral route">>, <<{"oral"}, "Oral route">>,
    <<{"tongue"}, "Sublingual route">>, <<{"cheek", "cheeks"}, "Buccal route">>,
    <<{"lung", "lungs"}, "Respiratory tract route">>,
    <<{"skin"}, "Topical route">>, <<{"scalp"}, "Topical route">>, <<{"face"}, "Topical route">>,
    <<{"hand", "hands"}, "Topical route">>, <<{"foot", "feet"}, "Topical route">>,
    <<{"elbow", "elbows"}, "Topical route">>, <<{"knee", "knees"}, "Topical route">>,
    <<{"leg", "legs"}, "Topical route">>, <<{"arm", "arms"}, "Topical route">>>>
HintsMatching(siteText) ==
  {n \in 1..Len(SITE_UNIT_ROUTE_HINTS) :
     \E m \in 1..Len(siteText) : siteText[m] \in SITE_UNIT_ROUTE_HINTS[n][1]}
\* Lines 2501-2508: a site whose words hint at a route gives one when none is set.
RouteFromSite(sig) ==
  IF ~IsSome(sig.routeCode) /\ IsSome(sig.siteText) /\ HintsMatching(Val(sig.siteText)) # {}
  THEN setRoute(sig, SITE_UNIT_ROUTE_HINTS[CHOOSE n \in HintsMatching(Val(sig.siteText)) :
                                             \A m \in HintsMatching(Val(sig.siteText)) : n <= m][2])
  ELSE sig

\* The site pass of lines 2361-2500.
LeftoverPlaces(sig, words) == {n \in 1..Len(words) : n \notin sig.consumed}
LeftoverSitePlaces(sig, words) ==
  {n \in LeftoverPlaces(sig, words) : words[n] \in BODY_SITE_HINTS}
SiteCandidates(sig, words) ==
  LeftoverSitePlaces(sig, words)
    \cup {n + 1 : n \in {m \in LeftoverPlaces(sig, words) :
                           /\ words[m] \notin BODY_SITE_HINTS
                           /\ words[m] \in SITE_CONNECTORS
                           /\ m + 1 <= Len(words)
                           /\ (m + 1) \notin sig.consumed}}
    \cup (IF LeftoverSitePlaces(sig, words) = {} THEN sig.siteTokenIndices ELSE {})
\* A word the pass walks over on either side of a candidate.
Linking(word) ==
  word \in SITE_CONNECTORS \cup BODY_SITE_HINTS \cup ROUTE_DESCRIPTOR_FILLER_WORDS
IndicesToInclude(words, candidates) ==
  candidates
    \cup {n \in 1..Len(words) :
            \E c \in candidates :
              \/ n < c /\ \A m \in n..(c - 1) : Linking(words[m])
              \/ n > c /\ \A m \in (c + 1)..n : Linking(words[m])}
RECURSIVE Ascending(_)
Ascending(places) ==
  IF places = {} THEN <<>>
  ELSE LET least == CHOOSE n \in places : \A m \in places : n <= m
       IN  <<least>> \o Ascending(places \ {least})
\* displayWords joined: the site phrase as its words.
SitePhrase(words, sorted) ==
  LET kept == SelectSeq(sorted, LAMBDA n :
                words[n] \notin SITE_CONNECTORS /\ words[n] \notin SITE_FILLER_WORDS)
  IN  [n \in 1..Len(kept) |-> words[kept[n]]]
\* Lines 2478-2498: the phrase is tried as a route descriptor when it holds
\* more than site words, and is the site text when that does not apply.
SiteOrRoute(sig, phrase) ==
  LET stripped == normalizeRouteDescriptorPhrase(phrase)
      shouldAttempt == \/ stripped # phrase
                       \/ \E n \in 1..Len(phrase) : phrase[n] \notin BODY_SITE_HINTS
                       \/ stripped = <<"mouth">>
      attempt == maybeApplyRouteDescriptor(sig, phrase)
  IN  IF shouldAttempt /\ attempt.applied THEN attempt.internal
      ELSE [sig EXCEPT !.siteText = Some(phrase)]

\* The words of the inputs, by what the parse is asked about.
MealWords == {"ac", "pc", "acm", "cm", "wm", "hs", "breakfast", "and", "bid"}
ClockWords == {"pc", "cm", "acm", "hs", "wm"}
ExpansionWords == {"ac", "pc", "wm", "bid", "cm"}
RouteWords == {"po", "iv", "in", "a", "left", "arm"}
Sentences(words) == UNION {[1..n -> words] : n \in 0..MaxTokens}

\* eventClock entries: one that ties HS with ACM (07:45), one with a
\* one-digit hour that ties C with CM (8:15), and two that
\* parseClockToSeconds turns down.
EventClocks ==
  {EmptyMap,
   "HS" :> <<"0", "7", ":", "4", "5">>,
   "C" :> <<"8", ":", "1", "5">>,
   "HS" :> <<"9", "a", "m">>,
   "ACM" :> <<"2", "5", ":", "0", "0">>}
ParseOptionsOf(eventClock, smartMealExpansion, twoPerDayPair) ==
  [eventClock |-> eventClock, smartMealExpansion |-> smartMealExpansion,
   twoPerDayPair |-> twoPerDayPair, allowDiscouraged |-> None]
DefaultParseOptions == ParseOptionsOf(EmptyMap, FALSE, None)

InitMealWords ==
  /\ tokens \in Sentences(MealWords)
  /\ parseOptions = DefaultParseOptions
InitClockWords ==
  /\ tokens \in Sentences(ClockWords)
  /\ \E eventClock \in EventClocks : parseOptions = ParseOptionsOf(eventClock, FALSE, None)
InitExpansionWords ==
  /\ tokens \in Sentences(ExpansionWords)
  /\ \E pair \in {None, Some("breakfast+lunch")} : parseOptions = ParseOptionsOf(EmptyMap, TRUE, pair)
InitRouteWords ==
  /\ tokens \in Sentences(RouteWords)
  /\ parseOptions = DefaultParseOptions
\* Intervals, as typed: the compact q-ranges come apart in tokenize.
PeriodWords ==
  {"q", "0.5", "h", "q2", "q2h", "q0.5h", "q0.00001h", "q1.5-2.5min", "q0.5-1.5h"}
InitPeriodWords ==
  /\ \E raw \in Sentences(PeriodWords) : tokens = tokenize(raw)
  /\ parseOptions = DefaultParseOptions
\* Discouraged abbreviations, plain and with full stops, and allowDiscouraged
\* left out, true and false.
DiscouragedWords == {"qd", "qod", "bld", "b-l-d", "ad", "qd.", "q.o.d.", "bid", "po"}
InitDiscouragedWords ==
  /\ tokens \in Sentences(DiscouragedWords)
  /\ \E allow \in {None, Some(TRUE), Some(FALSE)} :
       parseOptions = [DefaultParseOptions EXCEPT !.allowDiscouraged = allow]
ParseInit ==
  /\ \/ InitMealWords \/ InitClockWords \/ InitExpansionWords \/ InitRouteWords
     \/ InitPeriodWords \/ InitDiscouragedWords
  /\ internal = NewInternal
  /\ cursor = 1
  /\ stage = "tokens"
  /\ marks = <<>>
  /\ SchedulerIdle /\ ResolverIdle /\ OthersIdle

\* The token loop of lines 1867-2174 stands at a token.
AtToken == stage = "tokens" /\ cursor <= Len(tokens)
\* ... that no rule has consumed (line 1869).
Fresh == AtToken /\ cursor \notin internal.consumed
\* TIMING_ABBREVIATIONS[token.lower] ?? TIMING_ABBREVIATIONS[normalizedLower].
IsAbbreviation(word) ==
  word \in DOMAIN TIMING_ABBREVIATIONS \/ normalizeTokenLower(word) \in DOMAIN TIMING_ABBREVIATIONS
DescriptorOf(word) ==
  IF word \in DOMAIN TIMING_ABBREVIATIONS THEN TIMING_ABBREVIATIONS[word]
  ELSE TIMING_ABBREVIATIONS[normalizeTokenLower(word)]
\* The rules of lines 1874-1887, which come before the abbreviation map.
IsDiscouragedMeal(word) == word \in {"bld", "b-l-d"}
SeparatedQApplies ==
  tokens[cursor] = "q" /\ parseSeparatedQ(internal, tokens, cursor).applied
\* The numeric dose rules of lines 2115-2146.
IsDoseWord(word) == IsSome(parseNumericRange(word)) \/ IsNumberWord(word)
IsMealMarker(word) == word \in {"pc", "ac"}
IsEventToken(word) == word \in DOMAIN EVENT_TIMING_TOKENS
TimingWord(word) == IsAbbreviation(word) \/ IsMealMarker(word) \/ IsEventToken(word)
\* One of the interval rules, which come before the event timing rules, takes
\* the token.
IntervalRule ==
  \/ IsDiscouragedMeal(tokens[cursor])
  \/ SeparatedQApplies
  \/ tryParseCompactQ(internal, tokens, cursor).applied
IsConnector(word) == word \in {"per", "a", "every", "each"}

\* tokens.length === 0: parseInternal returns at once.
NoTokens ==
  /\ stage = "tokens" /\ Len(tokens) = 0
  /\ stage' = "done"
  /\ UNCHANGED <<schedulerVars, resolverVars, otherVars, tokens, parseOptions, internal, cursor, marks>>

SkipConsumed ==
  /\ AtToken /\ cursor \in internal.consumed
  /\ cursor' = cursor + 1
  /\ UNCHANGED <<schedulerVars, resolverVars, otherVars, tokens, parseOptions, internal, stage, marks>>

\* Lines 1874-1881: "bld" and "b-l-d" are checked as discouraged and taken
\* as "with meals".  A throw of checkDiscouraged ends the parse.
DiscouragedMeal ==
  /\ Fresh /\ IsDiscouragedMeal(tokens[cursor])
  /\ LET check == checkDiscouraged(tokens[cursor], parseOptions)
     IN  IF check.threw
         THEN /\ stage' = "threw"
              /\ UNCHANGED <<internal, marks, cursor>>
         ELSE /\ internal' = Consume(WithWhen(PushWarning(internal, check),
                                              addWhen(internal.when, "C")),
                                     {cursor})
              /\ marks' = Claimed(marks, "applyWhenToken", <<cursor>>)
              /\ cursor' = cursor + 1
              /\ UNCHANGED stage
  /\ UNCHANGED <<schedulerVars, resolverVars, otherVars, tokens, parseOptions>>

\* Lines 1883-1887: "q" followed by a range or a number and a unit, or by a
\* unit alone.
SeparatedQ ==
  /\ Fresh /\ SeparatedQApplies
  /\ LET parsed == parseSeparatedQ(internal, tokens, cursor)
     IN  /\ internal' = Consume(parsed.internal,
                                {parsed.marked[n] : n \in 1..Len(parsed.marked)})
         /\ marks' = Claimed(marks, "parseSeparatedQ", parsed.marked)
  /\ cursor' = cursor + 1
  /\ UNCHANGED <<schedulerVars, resolverVars, otherVars, tokens, parseOptions, stage>>

\* applyFrequencyDescriptor for a key of TIMING_ABBREVIATIONS: the token as
\* typed, or else the token without its punctuation.  checkDiscouraged is
\* given the token as typed and may throw.
FrequencyAbbreviation ==
  /\ Fresh /\ ~IsDiscouragedMeal(tokens[cursor]) /\ ~SeparatedQApplies
  /\ IsAbbreviation(tokens[cursor])
  /\ IF DescriptorCheck(tokens[cursor], DescriptorOf(tokens[cursor]), parseOptions).threw
     THEN /\ stage' = "threw"
          /\ UNCHANGED <<internal, marks, cursor>>
     ELSE /\ internal' = Consume(applyFrequencyDescriptor(internal, tokens[cursor],
                                                          DescriptorOf(tokens[cursor]), parseOptions),
                                 {cursor})
          /\ marks' = Claimed(marks, "applyFrequencyDescriptor", <<cursor>>)
          /\ cursor' = cursor + 1
          /\ UNCHANGED stage
  /\ UNCHANGED <<schedulerVars, resolverVars, otherVars, tokens, parseOptions>>

\* Line 1919: tryParseCompactQ.
CompactQ ==
  /\ Fresh /\ ~IsDiscouragedMeal(tokens[cursor]) /\ ~SeparatedQApplies
  /\ ~IsAbbreviation(tokens[cursor])
  /\ tryParseCompactQ(internal, tokens, cursor).applied
  /\ LET parsed == tryParseCompactQ(internal, tokens, cursor)
     IN  /\ internal' = Consume(parsed.internal,
                                {parsed.marked[n] : n \in 1..Len(parsed.marked)})
         /\ marks' = Claimed(marks, "tryParseCompactQ", parsed.marked)
  /\ cursor' = cursor + 1
  /\ UNCHANGED <<schedulerVars, resolverVars, otherVars, tokens, parseOptions, stage>>

\* "pc" and "ac" go to parseMealContext.
MealContext ==
  /\ Fresh /\ ~IntervalRule /\ ~IsAbbreviation(tokens[cursor]) /\ IsMealMarker(tokens[cursor])
  /\ LET meal == parseMealContext(internal, tokens, cursor,
                                  IF tokens[cursor] = "pc" THEN "PC" ELSE "AC")
     IN  /\ internal' = Consume(WithWhen(internal, meal.when),
                                {meal.marked[n] : n \in 1..Len(meal.marked)})
         /\ marks' = Claimed(marks, "parseMealContext", meal.marked)
  /\ cursor' = cursor + 1
  /\ UNCHANGED <<schedulerVars, resolverVars, otherVars, tokens, parseOptions, stage>>

\* applyWhenToken for a key of EVENT_TIMING_TOKENS.
EventTimingToken ==
  /\ Fresh /\ ~IntervalRule /\ ~IsAbbreviation(tokens[cursor]) /\ ~IsMealMarker(tokens[cursor])
  /\ IsEventToken(tokens[cursor])
  /\ internal' = Consume(WithWhen(internal, addWhen(internal.when, EVENT_TIMING_TOKENS[tokens[cursor]])),
                         {cursor})
  /\ marks' = Claimed(marks, "applyWhenToken", <<cursor>>)
  /\ cursor' = cursor + 1
  /\ UNCHANGED <<schedulerVars, resolverVars, otherVars, tokens, parseOptions, stage>>

\* tryRouteSynonym found a span: the route is set and the span consumed.
RouteSynonym ==
  /\ Fresh /\ ~IntervalRule /\ ~TimingWord(tokens[cursor])
  /\ RouteSpan(tokens, internal.consumed, cursor) > 0
  /\ LET span == RouteSpan(tokens, internal.consumed, cursor)
         slice == [n \in 1..span |-> cursor + n - 1]
         routed == setRoute(internal, DEFAULT_ROUTE_SYNONYMS[SubSeq(tokens, cursor, cursor + span - 1)])
     IN  /\ internal' = Consume([routed EXCEPT !.siteTokenIndices =
                                   routed.siteTokenIndices
                                     \cup {n \in cursor..(cursor + span - 1) : tokens[n] \in BODY_SITE_HINTS}],
                                cursor..(cursor + span - 1))
         /\ marks' = Claimed(marks, "tryRouteSynonym", slice)
  /\ cursor' = cursor + 1
  /\ UNCHANGED <<schedulerVars, resolverVars, otherVars, tokens, parseOptions, stage>>

\* Lines 2170-2173: "per", "a", "every" and "each" are consumed as they stand.
Connector ==
  /\ Fresh /\ ~IntervalRule /\ ~TimingWord(tokens[cursor])
  /\ RouteSpan(tokens, internal.consumed, cursor) = 0
  /\ ~IsDoseWord(tokens[cursor])
  /\ IsConnector(tokens[cursor])
  /\ internal' = Consume(internal, {cursor})
  /\ marks' = Claimed(marks, "connector", <<cursor>>)
  /\ cursor' = cursor + 1
  /\ UNCHANGED <<schedulerVars, resolverVars, otherVars, tokens, parseOptions, stage>>

\* Lines 2115-2146: a range or a number that no earlier rule took is the
\* dose.  No word of the inputs is a unit, so the token after it stays.
\* (tryParseNumericCadence and tryParseCountBasedFrequency need a connector
\* or a "times" word after the number, which the inputs with numbers lack.)
NumericDose ==
  /\ Fresh /\ ~IntervalRule /\ ~TimingWord(tokens[cursor])
  /\ RouteSpan(tokens, internal.consumed, cursor) = 0
  /\ IsDoseWord(tokens[cursor])
  /\ internal' = Consume(internal, {cursor})
  /\ marks' = Claimed(marks, "dose", <<cursor>>)
  /\ cursor' = cursor + 1
  /\ UNCHANGED <<schedulerVars, resolverVars, otherVars, tokens, parseOptions, stage>>

\* No rule of the loop takes the token: it is left for the later passes.
Unmatched ==
  /\ Fresh /\ ~IntervalRule /\ ~TimingWord(tokens[cursor])
  /\ RouteSpan(tokens, internal.consumed, cursor) = 0
  /\ ~IsDoseWord(tokens[cursor])
  /\ ~IsConnector(tokens[cursor])
  /\ cursor' = cursor + 1
  /\ UNCHANGED <<schedulerVars, resolverVars, otherVars, tokens, parseOptions, internal, stage, marks>>

\* After the loop (line 2245).
Reconcile ==
  /\ stage = "tokens" /\ Len(tokens) > 0 /\ cursor > Len(tokens)
  /\ internal' = WithWhen(internal, reconcileMealTimingSpecificity(internal.when))
  /\ stage' = "expand"
  /\ UNCHANGED <<schedulerVars, resolverVars, otherVars, tokens, parseOptions, cursor, marks>>

\* Line 2248.
ExpandMealTimings ==
  /\ stage = "expand"
  /\ internal' = WithWhen(internal, expandMealTimings(internal, parseOptions))
  /\ stage' = "sort"
  /\ UNCHANGED <<schedulerVars, resolverVars, otherVars, tokens, parseOptions, cursor, marks>>

\* Line 2250.
SortWhen ==
  /\ stage = "sort"
  /\ internal' = [internal EXCEPT !.when = sortWhenValues(internal.when, parseOptions)]
  /\ stage' = "site"
  /\ UNCHANGED <<schedulerVars, resolverVars, otherVars, tokens, parseOptions, cursor, marks>>

\* Lines 2361-2519: the site pass, the route a site hints at, and the return.
SitePass ==
  /\ stage = "site"
  /\ LET candidates == SiteCandidates(internal, tokens)
         sorted == Ascending(IndicesToInclude(tokens, candidates))
         phrase == SitePhrase(tokens, sorted)
         claimed == Consume(internal, {sorted[n] : n \in 1..Len(sorted)})
     IN  /\ internal' = RouteFromSite(IF phrase = <<>> THEN claimed ELSE SiteOrRoute(claimed, phrase))
         /\ marks' = Claimed(marks, "site", sorted)
  /\ stage' = "done"
  /\ UNCHANGED <<schedulerVars, resolverVars, otherVars, tokens, parseOptions, cursor>>

ParseNext ==
  \/ NoTokens
  \/ SkipConsumed
  \/ DiscouragedMeal
  \/ SeparatedQ
  \/ FrequencyAbbreviation
  \/ CompactQ
  \/ MealContext
  \/ EventTimingToken
  \/ RouteSynonym
  \/ NumericDose
  \/ Connector
  \/ Unmatched
  \/ Reconcile
  \/ ExpandMealTimings
  \/ SortWhen
  \/ SitePass

ParseSpec == ParseInit /\ [][ParseNext]_vars

(***************************************************************************)
(* Properties of a parse                                                   *)
(***************************************************************************)
\* parseInternal has returned.
FullParse == stage = "done"

\* C17: no token is claimed twice during one parse: every mark() call of the
\* rules (the PRN-reason pass aside, which the inputs never enter) is for a
\* token that no earlier call has claimed.
C17_NoTokenClaimedTwice ==
  \A n \in 1..Len(marks), m \in 1..Len(marks) :
    marks[n].place = marks[m].place => n = m

\* C18: once a step of the parse has assigned a route code, no later step of
\* the same parse replaces it with another code.
C18_RouteNeverReplaced ==
  [][(stage # "idle" /\ IsSome(internal.routeCode)) =>
       internal'.routeCode = internal.routeCode]_vars

\* The place of a code in the order the codes were first seen.
SeenPlace(code) == CHOOSE n \in 1..Len(internal.seen) : internal.seen[n] = code
\* Two neighbours of when have the same weight.
TiedNeighbours(n) ==
  computeWhenWeight(internal.when[n], parseOptions)
    = computeWhenWeight(internal.when[n + 1], parseOptions)

\* C19: after a full parse when holds no code twice and is in order of
\* non-decreasing weight (the eventClock entry of the code when it gives a
\* time, else the default table), codes of equal weight in first-seen order.
C19_WhenSortedAndDistinct ==
  FullParse =>
    \A n \in 1..Len(internal.when), m \in 1..Len(internal.when) :
      n < m =>
        /\ internal.when[n] # internal.when[m]
        /\ computeWhenWeight(internal.when[n], parseOptions)
             <= computeWhenWeight(internal.when[m], parseOptions)
        /\ computeWhenWeight(internal.when[n], parseOptions)
             = computeWhenWeight(internal.when[m], parseOptions)
             => SeenPlace(internal.when[n]) < SeenPlace(internal.when[m])
\* A full parse whose three codes were reordered by the sort and hold a tie
\* that an eventClock entry made.
C19_Witness ==
  /\ FullParse
  /\ Len(internal.when) = 3
  /\ internal.when # internal.seen
  /\ parseOptions.eventClock # EmptyMap
  /\ \E n \in 1..2 : TiedNeighbours(n)

\* C20: after a full parse when does not hold a generic meal code (C, AC,
\* PC) next to a specific one (a breakfast, lunch or dinner code).
C20_NoGenericWithSpecific ==
  FullParse =>
    ~(/\ \E n \in 1..Len(internal.when) : internal.when[n] \in {"C", "AC", "PC"}
      /\ \E n \in 1..Len(internal.when) : internal.when[n] \in SPECIFIC_MEAL_TIMINGS)

\* A bound of the period counted in hours is a whole number of hours, at
\* least one.
WholeHours(bound) == IsSome(bound) => (IsInteger(Val(bound)) /\ Val(bound) >= WholeOne)
\* C21: after a full parse a period, or period range, whose unit is the hour
\* has whole bounds of at least 1: a bound that is not has been turned into
\* minutes together with the unit, whichever rule set it.
C21_HourPeriodsWhole ==
  (FullParse /\ internal.periodUnit = Some("h")) =>
    (WholeHours(internal.period) /\ WholeHours(internal.periodMax))

\* The parse has ended, by a return or by a throw.
ParseEnded == stage \in {"done", "threw"}
\* The places of the tokens that name QD, QOD or BLD, with or without full
\* stops.
DiscouragedPlaces ==
  {n \in 1..Len(tokens) : normalizeTokenLower(tokens[n]) \in {"qd", "qod", "bld", "b-l-d"}}
Warned(code) == \E n \in 1..Len(internal.warnings) : internal.warnings[n] = code
\* C22: a parse of an input that holds a discouraged token (QD, QOD, BLD or
\* B-L-D) ends in a throw when allowDiscouraged is false, and otherwise
\* returns with a warning for each such token.
C22_DiscouragedRejectedOrWarned ==
  (ParseEnded /\ DiscouragedPlaces # {}) =>
    IF parseOptions.allowDiscouraged = Some(FALSE) THEN stage = "threw"
    ELSE /\ stage = "done"
         /\ \A n \in DiscouragedPlaces :
              Warned(DISCOURAGED_TOKENS[normalizeTokenLower(tokens[n])])

(***************************************************************************)
(* toFhir and internalFromFhir (src/unnamed/part_011)                      *)
(*                                                                         *)
(* A Dosage is taken in the fields that carry a coded route, site and      *)
(* as-needed reason: route and site are CodeableConcepts (None when the    *)
(* Dosage has none), asNeededBoolean is None, TRUE or FALSE, asNeededFor   *)
(* is a list of CodeableConcepts.  A CodeableConcept is [text, coding],    *)
(* coding being None or a list of Codings [system, code, display] whose    *)
(* members are None when left out.                                         *)
(***************************************************************************)
\* The codings of one CodeableConcept of the inputs.
MaxCodings == 2

SNOMED_SYSTEM == "http://snomed.info/sct"
Coding(system, code, display) == [system |-> system, code |-> code, display |-> display]
Concept(text, coding) == [text |-> text, coding |-> coding]
\* ROUTE_SNOMED, ROUTE_BY_SNOMED and ROUTE_TEXT for two routes.  A RouteCode
\* is its SNOMED code.
ROUTE_SNOMED ==
  ("26643006" :> [code |-> "26643006", display |-> "Oral route"])
    @@ ("47625008" :> [code |-> "47625008", display |-> "Intravenous route"])
ROUTE_BY_SNOMED == [code \in DOMAIN ROUTE_SNOMED |-> ROUTE_SNOMED[code].code]
ROUTE_TEXT == ("26643006" :> "by mouth") @@ ("47625008" :> "intravenous")

\* codings.find((code) => code.system === SNOMED_SYSTEM): None when the list
\* has no such member.
RECURSIVE FindSnomed(_)
FindSnomed(codings) ==
  IF codings = <<>> THEN None
  ELSE IF Head(codings).system = Some(SNOMED_SYSTEM) THEN Some(Head(codings))
  ELSE FindSnomed(Tail(codings))
\* concept?.coding of a concept that may be missing.
CodingsOf(concept) ==
  IF IsSome(concept) /\ IsSome(Val(concept).coding) THEN Val(Val(concept).coding) ELSE <<>>
TextOf(concept) == IF IsSome(concept) THEN Val(concept).text ELSE None
\* x?.[0] of a list.
First(list) == IF list = <<>> THEN None ELSE Some(list[1])

\* Lines 208-216: the route code and text a SNOMED route coding gives.
RouteOfCoding(routeCoding, routeText) ==
  IF IsSome(routeCoding) /\ IsSome(Val(routeCoding).code)
       /\ Val(Val(routeCoding).code) \in DOMAIN ROUTE_BY_SNOMED
  THEN [routeCode |-> Some(ROUTE_BY_SNOMED[Val(Val(routeCoding).code)]),
        routeText |-> Some(ROUTE_TEXT[ROUTE_BY_SNOMED[Val(Val(routeCoding).code)]])]
  ELSE [routeCode |-> None, routeText |-> routeText]
\* Lines 218-234: a coding is kept when it has a code.
KeptCoding(coding) ==
  IF IsSome(coding) /\ IsSome(Val(coding).code) THEN coding ELSE None
internalFromFhir(fhir) ==
  [routeCode |-> RouteOfCoding(FindSnomed(CodingsOf(fhir.route)), TextOf(fhir.route)).routeCode,
   routeText |-> RouteOfCoding(FindSnomed(CodingsOf(fhir.route)), TextOf(fhir.route)).routeText,
   siteText |-> TextOf(fhir.site),
   siteCoding |-> KeptCoding(FindSnomed(CodingsOf(fhir.site))),
   asNeeded |-> fhir.asNeededBoolean,
   asNeededReason |-> TextOf(First(fhir.asNeededFor)),
   asNeededReasonCoding |-> KeptCoding(First(CodingsOf(First(fhir.asNeededFor))))]

\* Lines 91-113: the route of the Dosage.
RouteConcept(sig) ==
  IF IsSome(sig.routeCode)
  THEN Some(Concept(IF IsSome(sig.routeText) THEN sig.routeText
                    ELSE Some(ROUTE_TEXT[Val(sig.routeCode)]),
                    Some(<<Coding(Some(SNOMED_SYSTEM),
                                  Some(ROUTE_SNOMED[Val(sig.routeCode)].code),
                                  Some(ROUTE_SNOMED[Val(sig.routeCode)].display))>>)))
  ELSE IF IsSome(sig.routeText) THEN Some(Concept(sig.routeText, None))
  ELSE None
\* system ?? SNOMED_SYSTEM, code and display of a coding that has a code.
Emitted(coding) ==
  <<Coding(IF IsSome(Val(coding).system) THEN Val(coding).system ELSE Some(SNOMED_SYSTEM),
           Val(coding).code, Val(coding).display)>>
\* Lines 115-129: the site of the Dosage.
SiteConcept(sig) ==
  IF IsSome(sig.siteText) \/ IsSome(sig.siteCoding)
  THEN Some(Concept(sig.siteText,
                    IF IsSome(sig.siteCoding) THEN Some(Emitted(sig.siteCoding)) ELSE None))
  ELSE None
\* Lines 146-164: asNeededFor of the Dosage.
ReasonConcepts(sig) ==
  IF sig.asNeeded = Some(TRUE) /\ (IsSome(sig.asNeededReason) \/ IsSome(sig.asNeededReasonCoding))
  THEN <<Concept(sig.asNeededReason,
                 IF IsSome(sig.asNeededReasonCoding) THEN Some(Emitted(sig.asNeededReasonCoding))
                 ELSE None)>>
  ELSE <<>>
toFhir(sig) ==
  [route |-> RouteConcept(sig),
   site |-> SiteConcept(sig),
   asNeededBoolean |-> IF sig.asNeeded = Some(TRUE) THEN Some(TRUE) ELSE None,
   asNeededFor |-> ReasonConcepts(sig)]

\* The Dosages of the model.
Lists(values) == UNION {[1..n -> values] : n \in 0..MaxCodings}
RouteCodings ==
  {Coding(Some(SNOMED_SYSTEM), Some("26643006"), Some("Oral route")),
   Coding(Some(SNOMED_SYSTEM), Some("47625008"), None),
   Coding(Some(SNOMED_SYSTEM), Some("999"), Some("Other route")),
   Coding(Some("http://example.org/routes"), Some("PO"), Some("Oral"))}
SiteCodings ==
  {Coding(Some(SNOMED_SYSTEM), Some("368209003"), Some("Right arm")),
   Coding(Some("http://example.org/sites"), Some("ARM"), Some("Arm")),
   Coding(None, Some("368209003"), None)}
ReasonCodings ==
  {Coding(Some(SNOMED_SYSTEM), Some("22253000"), Some("Pain")),
   Coding(Some("http://example.org/reasons"), Some("PAIN"), None)}
Concepts(codings) ==
  {None} \cup {Some(Concept(None, IF list = <<>> THEN None ELSE Some(list))) : list \in Lists(codings)}
Dosages ==
  [route : Concepts(RouteCodings),
   site : Concepts(SiteCodings),
   asNeededBoolean : {None, Some(TRUE), Some(FALSE)},
   asNeededFor : {<<>>} \cup {<<Val(concept)>> : concept \in Concepts(ReasonCodings) \ {None}}]

FhirInit ==
  /\ \E fhir \in Dosages :
       roundTrip = [dosage |-> fhir, internal |-> None, result |-> None]
  /\ SchedulerIdle /\ ParserIdle /\ ResolverIdle /\ NoEarlierCalls
  /\ FormattingIdle /\ SuggestIdle
InternalFromFhir ==
  /\ roundTrip # <<>> /\ ~IsSome(roundTrip.internal)
  /\ roundTrip' = [roundTrip EXCEPT !.internal = Some(internalFromFhir(roundTrip.dosage))]
  /\ UNCHANGED <<schedulerVars, parserVars, resolverVars, finished, formatting, suggestion>>
ToFhir ==
  /\ roundTrip # <<>> /\ IsSome(roundTrip.internal) /\ ~IsSome(roundTrip.result)
  /\ roundTrip' = [roundTrip EXCEPT !.result = Some(toFhir(Val(roundTrip.internal)))]
  /\ UNCHANGED <<schedulerVars, parserVars, resolverVars, finished, formatting, suggestion>>
FhirNext == InternalFromFhir \/ ToFhir
FhirSpec == FhirInit /\ [][FhirNext]_vars

\* The codings of the route, the site and the first as-needed reason.
CodedValues(fhir) ==
  [route |-> CodingsOf(fhir.route),
   site |-> CodingsOf(fhir.site),
   reason |-> CodingsOf(First(fhir.asNeededFor))]
\* C23: the coded route, site and as-needed reason of
\* toFhir(internalFromFhir(x)) are those of x, for every Dosage x.
C23_CodedValuesRoundTrip ==
  (roundTrip # <<>> /\ IsSome(roundTrip.result)) =>
    CodedValues(Val(roundTrip.result)) = CodedValues(roundTrip.dosage)

(***************************************************************************)
(* parseInternal called again and again                                    *)
(*                                                                         *)
(* The module scope of src/unnamed/part_012 holds tables only (const Sets  *)
(* and Records that no function writes); a call builds its token array at  *)
(* line 1705 and its accumulator, with the consumed set, at lines          *)
(* 1706-1718.  finished keeps what the earlier calls were given and what   *)
(* they gave back.                                                         *)
(***************************************************************************)
\* The calls of one run.
MaxCalls == 3

\* The inputs of the calls: between them they reach every rule of the loop.
RepeatInputs ==
  {<<>>,
   <<"bld", "qd.">>,
   <<"q", "0.5-1.5", "h">>,
   <<"q2h", "pc", "breakfast">>,
   <<"q0.5h", "hs", "h">>,
   <<"po", "a", "0.5">>,
   <<"in", "left", "arm">>}
RepeatOptions ==
  {DefaultParseOptions, [DefaultParseOptions EXCEPT !.allowDiscouraged = Some(FALSE)]}

\* The accumulator of a new call, whatever the call before it left behind:
\* the object literal of lines 1706-1718.
FreshInternalReused(last) == [NewInternal EXCEPT !.consumed = last.consumed]
FreshInternal(last) == NewInternal

\* What a call was given and what came of it.
CallRecord ==
  [tokens |-> tokens, parseOptions |-> parseOptions,
   stage |-> stage, internal |-> internal, marks |-> marks]
RepeatInit ==
  /\ tokens \in RepeatInputs
  /\ parseOptions \in RepeatOptions
  /\ internal = NewInternal
  /\ cursor = 1
  /\ stage = "tokens"
  /\ marks = <<>>
  /\ finished = <<>>
  /\ SchedulerIdle /\ ResolverIdle /\ FhirIdle /\ FormattingIdle /\ SuggestIdle
\* The call has ended and parseInternal is called once more.
ParseAgain ==
  /\ ParseEnded /\ Len(finished) + 1 < MaxCalls
  /\ finished' = Append(finished, CallRecord)
  /\ tokens' \in RepeatInputs
  /\ parseOptions' \in RepeatOptions
  /\ internal' = FreshInternal(internal)
  /\ cursor' = 1
  /\ stage' = "tokens"
  /\ marks' = <<>>
  /\ UNCHANGED <<schedulerVars, resolverVars, roundTrip, formatting, suggestion>>
RepeatNext == ParseNext \/ ParseAgain
RepeatSpec == RepeatInit /\ [][RepeatNext]_vars

\* The calls that have ended, the one under way included once it has.
EndedCalls == IF ParseEnded THEN Append(finished, CallRecord) ELSE finished
SameArguments(a, b) == a.tokens = b.tokens /\ a.parseOptions = b.parseOptions
\* A step leaves what the earlier calls returned as it is, and a step of a
\* call leaves the arguments of the call as they are.
KeepsToItself ==
  /\ Len(finished') >= Len(finished)
  /\ SubSeq(finished', 1, Len(finished)) = finished
  /\ ~ParseEnded => (tokens' = tokens /\ parseOptions' = parseOptions /\ finished' = finished)
MaxLookups == 4

\* The keys looked up: the zones of the scheduler and one that the runtime
\* does not know.
LookupZones == TimeZones \cup {"Mars/Olympus"}
Caches == {"dateTimeFormatCache", "weekdayFormatCache"}

\* if (!formatter): whether the lookup builds a formatter.
MissesAlways(cache, timeZone) == TRUE
Misses(cache, timeZone) == timeZone \notin DOMAIN cache

\* One lookup in the named cache: the formatter it returns (None when the
\* constructor throws), whether it built one, and the cache it leaves.
Lookup(cache, timeZone, built) ==
  IF ~Misses(cache, timeZone)
  THEN [formatter |-> Some(cache[timeZone]), created |-> FALSE, cache |-> cache]
  ELSE IF timeZone \notin TimeZones
  THEN [formatter |-> None, created |-> FALSE, cache |-> cache]
  ELSE [formatter |-> Some(built + 1), created |-> TRUE,
        cache |-> [key \in DOMAIN cache \cup {timeZone} |->
                     IF key = timeZone THEN built + 1 ELSE cache[key]]]
\* The state after a lookup in the cache of the given name.
AfterLookup(name, timeZone) ==
  LET found == Lookup(formatting.caches[name], timeZone, formatting.built)
  IN  [caches |-> [formatting.caches EXCEPT ![name] = found.cache],
       built |-> IF found.created THEN formatting.built + 1 ELSE formatting.built,
       lookups |-> Append(formatting.lookups,
                          [cache |-> name, timeZone |-> timeZone,
                           formatter |-> found.formatter, created |-> found.created])]

FormatInit ==
  /\ formatting = [caches |-> [name \in Caches |-> EmptyMap], built |-> 0, lookups |-> <<>>]
  /\ SchedulerIdle /\ ParserIdle /\ ResolverIdle
  /\ FhirIdle /\ NoEarlierCalls /\ SuggestIdle
GetDateTimeFormat ==
  /\ formatting # <<>> /\ Len(formatting.lookups) < MaxLookups
  /\ \E timeZone \in LookupZones :
       formatting' = AfterLookup("dateTimeFormatCache", timeZone)
  /\ UNCHANGED <<schedulerVars, parserVars, resolverVars, roundTrip, finished, suggestion>>
GetWeekdayFormat ==
  /\ formatting # <<>> /\ Len(formatting.lookups) < MaxLookups
  /\ \E timeZone \in LookupZones :
       formatting' = AfterLookup("weekdayFormatCache", timeZone)
  /\ UNCHANGED <<schedulerVars, parserVars, resolverVars, roundTrip, finished, suggestion>>
FormatNext == GetDateTimeFormat \/ GetWeekdayFormat
FormatSpec == FormatInit /\ [][FormatNext]_vars

SameKey(a, b) == a.cache = b.cache /\ a.timeZone = b.timeZone
\* What is stored stays stored, as it is.
EntriesKept ==
  \A name \in Caches : \A key \in DOMAIN formatting.caches[name] :
    /\ key \in DOMAIN formatting'.caches[name]
    /\ formatting'.caches[name][key] = formatting.caches[name][key]
\* C25: for each cache and time-zone key a formatter is built and stored at
\* most once, every lookup for the key that returns gives that same object,
\* and an entry once stored is never replaced or removed.
C25_CachesWriteOnce ==
  /\ [](\A a \in 1..Len(formatting.lookups), b \in 1..Len(formatting.lookups) :
          SameKey(formatting.lookups[a], formatting.lookups[b]) =>
            /\ formatting.lookups[a].formatter = formatting.lookups[b].formatter
            /\ (formatting.lookups[a].created /\ formatting.lookups[b].created) => a = b)
  /\ [][EntriesKept]_vars
\* Lookups for one key in both caches, the second of them for a key that is
\* stored, with a lookup for another key in between.
C25_Witness ==
  /\ Len(formatting.lookups) = 4
  /\ formatting.lookups[1].cache = "dateTimeFormatCache"
  /\ formatting.lookups[1].created
  /\ formatting.lookups[2].cache = "weekdayFormatCache"
  /\ formatting.lookups[2].timeZone = formatting.lookups[1].timeZone
  /\ formatting.lookups[3].timeZone # formatting.lookups[1].timeZone
  /\ SameKey(formatting.lookups[4], formatting.lookups[1])
  /\ formatting.lookups[4].formatter = Some(1)

(***************************************************************************)
(* suggestSig of src/src/suggest.ts                                        *)
(*                                                                         *)
(* A string is the sequence of its words, which is what normalizeSpacing   *)
(* and the split at white space leave of it.  The words of the model are   *)
(* in lower case, so that a candidate and its lower-case form are one; no  *)
(* word holds a dash and no input starts a word where another ends, so     *)
(* that the forms without white space or dashes match when the plain forms *)
(* do.  The tables are cut to their first MaxEach entries.                 *)
(***************************************************************************)
\* The entries taken of each table of candidates.
MaxEach == 2

DEFAULT_LIMIT == 10
Take(list, count) == SubSeq(list, 1, IF Len(list) < count THEN Len(list) ELSE count)
RECURSIVE Flatten(_)
Flatten(lists) ==
  IF lists = <<>> THEN <<>> ELSE Head(lists) \o Flatten(Tail(lists))
RECURSIVE Distinct(_)
\* The order of insertion into a Set or Map: the first of equal entries stays.
Distinct(list) ==
  IF list = <<>> THEN <<>>
  ELSE LET before == Distinct(SubSeq(list, 1, Len(list) - 1))
           last == list[Len(list)]
       IN  IF \E i \in 1..Len(before) : before[i] = last THEN before
           ELSE Append(before, last)

DEFAULT_UNIT_ROUTE_ORDER ==
  << [unit |-> "tab", route |-> "po"], [unit |-> "cap", route |-> "po"],
     [unit |-> "puff", route |-> "inh"] >>
UnitVariantsOf ==
  [tab |-> <<"tab", "tabs", "tablet">>, cap |-> <<"cap", "caps", "capsule">>,
   puff |-> <<"puff", "puffs">>]
FREQUENCY_CODES == <<"qd", "od", "bid", "tid", "qid">>
BASE_INTERVAL_CODES == <<"q1h", "q2h", "q3h", "q4h">>
FREQUENCY_NUMBERS == << <<"1x1", "qd">>, <<"1x2", "bid">>, <<"1x3", "tid">> >>
CORE_WHEN_TOKENS == <<"pc", "ac", "hs">>
PRECOMPUTED_WHEN_SEQUENCES == << <<"ac">>, <<"pc">>, <<"hs">> >>
DEFAULT_PRN_REASONS == <<"pain", "nausea", "itching">>
DEFAULT_DOSE_COUNTS == <<"1", "2">>
OPTIONAL_MATCH_TOKENS == {"to", "into", "in", "on", "onto", "per", "for", "the", "od", "os", "ou"}
SKIPPABLE_CANDIDATE_TOKENS == OPTIONAL_MATCH_TOKENS \cup {"po", "inh"}

\* The words that start with a part of a word, for the parts the inputs hold.
Started ==
  [t |-> {"tab", "tabs", "tablet", "tid"},
   q |-> {"qd", "qid", "q1h", "q2h", "q3h", "q4h"},
   p |-> {"po", "pc", "pain", "prn", "puff", "puffs"}]
   @@ ("1" :> {"1x1", "1x2", "1x3"})
\* String.prototype.startsWith on one word.
StartsWith(word, part) ==
  word = part \/ (part \in DOMAIN Started /\ word \in Started[part])
\* startsWith on single-spaced strings: the words before the last are whole.
StringStartsWith(string, part) ==
  \/ part = <<>>
  \/ /\ Len(part) <= Len(string)
     /\ \A i \in 1..(Len(part) - 1) : string[i] = part[i]
     /\ StartsWith(string[Len(part)], part[Len(part)])

IsDigits(word) == word \in {"1", "2", "3"}
buildUnitRoutePairs == Take(DEFAULT_UNIT_ROUTE_ORDER, MaxEach)
getUnitVariants(unit) == Take(UnitVariantsOf[unit], MaxEach)
buildDoseValues(input) ==
  Distinct(SelectSeq(input, IsDigits) \o DEFAULT_DOSE_COUNTS)
buildPrnReasons(customReasons) ==
  Distinct(customReasons \o Take(DEFAULT_PRN_REASONS, MaxEach))
IsInterval(word) == word \in {"q1h", "q2h", "q3h", "q4h"}
buildIntervalTokens(input) ==
  Distinct(Take(BASE_INTERVAL_CODES, MaxEach) \o SelectSeq(input, IsInterval))
IsMatchToken(word) == word \notin OPTIONAL_MATCH_TOKENS
tokenizeLowercaseForMatching(value) == SelectSeq(value, IsMatchToken)

RECURSIVE tokensMatchFrom(_, _, _)
tokensMatchFrom(prefixTokens, candidateTokens, prefixIndex) ==
  IF candidateTokens = <<>> THEN prefixIndex > Len(prefixTokens)
  ELSE IF prefixIndex > Len(prefixTokens) THEN TRUE
  ELSE IF StartsWith(Head(candidateTokens), prefixTokens[prefixIndex])
  THEN IF prefixIndex + 1 > Len(prefixTokens) THEN TRUE
       ELSE tokensMatchFrom(prefixTokens, Tail(candidateTokens), prefixIndex + 1)
  ELSE IF Head(candidateTokens) \notin SKIPPABLE_CANDIDATE_TOKENS THEN FALSE
  ELSE tokensMatchFrom(prefixTokens, Tail(candidateTokens), prefixIndex)
tokensMatch(prefixTokens, candidateTokens) ==
  IF prefixTokens = <<>> THEN TRUE
  ELSE tokensMatchFrom(prefixTokens, candidateTokens, 1)

\* matchesPrefix with the context that suggestSig builds of the input.
matchesPrefix(candidateLower, prefix) ==
  LET prefixTokens == tokenizeLowercaseForMatching(prefix)
      candidateTokens == tokenizeLowercaseForMatching(candidateLower)
  IN  \/ prefix = <<>>
      \/ prefixTokens = <<>>
      \/ StringStartsWith(candidateLower, prefix)
      \/ StringStartsWith(candidateTokens, prefixTokens)
      \/ tokensMatch(prefixTokens, candidateTokens)

\* dose, unit and route, in the order of the two inner loops.
Bases(pair, doseValues) ==
  LET unitVariants == getUnitVariants(pair.unit)
  IN  Flatten([u \in 1..Len(unitVariants) |->
                 [d \in 1..Len(doseValues) |->
                    <<doseValues[d], unitVariants[u], pair.route>>]])
WithSuffix(bases, suffix) == [b \in 1..Len(bases) |-> bases[b] \o suffix]
\* The candidates of one pair, in the order in which the five loops of
\* generateCandidateDirections hand them to push.
CandidatesOfPair(pair, doseValues, prnReasons, intervalTokens, whenSequences) ==
  LET bases == Bases(pair, doseValues)
      codes == Take(FREQUENCY_CODES, MaxEach)
      numbers == Take(FREQUENCY_NUMBERS, MaxEach)
      whens == Take(CORE_WHEN_TOKENS, MaxEach)
  IN  Flatten([c \in 1..Len(codes) |->
                 WithSuffix(bases, <<codes[c]>>) \o << <<pair.route, codes[c]>> >>])
      \o
      Flatten([i \in 1..Len(intervalTokens) |->
                 Flatten([b \in 1..Len(bases) |->
                            << bases[b] \o <<intervalTokens[i]>> >>
                            \o [r \in 1..Len(prnReasons) |->
                                  bases[b] \o <<intervalTokens[i], "prn", prnReasons[r]>>]])
                 \o << <<pair.route, intervalTokens[i]>> >>])
      \o
      Flatten([f \in 1..Len(numbers) |->
                 << <<numbers[f][1], pair.route, numbers[f][2]>> >>
                 \o [w \in 1..Len(whens) |-> <<numbers[f][1], pair.route, whens[w]>>]])
      \o
      Flatten([w \in 1..Len(whenSequences) |->
                 WithSuffix(bases, whenSequences[w])
                 \o << <<pair.route>> \o whenSequences[w] >>])
      \o
      Flatten([r \in 1..Len(prnReasons) |->
                 WithSuffix(bases, <<"prn", prnReasons[r]>>)
                 \o << <<pair.route, "prn", prnReasons[r]>> >>])
\* All candidates of one suggestSig call, in order.
Candidates(input, customReasons) ==
  LET pairs == buildUnitRoutePairs
  IN  Flatten([p \in 1..Len(pairs) |->
                 CandidatesOfPair(pairs[p], buildDoseValues(input),
                                  buildPrnReasons(customReasons),
                                  buildIntervalTokens(input),
                                  Take(PRECOMPUTED_WHEN_SEQUENCES, MaxEach))])

\* options?.limit ?? DEFAULT_LIMIT
SuggestLimitOf(given) == IF given.limit = Undef THEN Whole(DEFAULT_LIMIT) ELSE given.limit
\* What push returns after it has taken a candidate: suggestions.length >= limit
Full(suggestions, limit) == NumLe(limit, Whole(Len(suggestions)))

SuggestInputs ==
  { <<>>, <<"1">>, <<"1", "t">>, <<"2", "tab", "po", "q">>, <<"po">>, <<"q">>,
    <<"3", "cap">>, <<"qd">>, <<"od">>, <<"tab", "qd">>, <<"p", "q3h">>, <<"zz">> }
SuggestLimits ==
  { Undef, Whole(0 - 1), Whole(0), Whole(1), Whole(3), Whole(12), Whole(400),
    Fin(2 * Den + 1), NaN, PosInf }
SuggestReasons == { <<>>, <<"pain", "zz">> }

SuggestInit ==
  /\ \E input \in SuggestInputs, limit \in SuggestLimits, reasons \in SuggestReasons :
       suggestion = [input |-> input,
                     options |-> [limit |-> limit, prnReasons |-> reasons],
                     stage |-> "called", position |-> 0, order |-> <<>>,
                     suggestions |-> <<>>, seen |-> {}]
  /\ SchedulerIdle /\ ParserIdle /\ ResolverIdle
  /\ FhirIdle /\ NoEarlierCalls /\ FormattingIdle
\* suggestSig up to its call of generateCandidateDirections.  order is the
\* order in which the loops would reach the candidates; position is how far
\* they have come.
SuggestSig ==
  /\ suggestion # <<>> /\ suggestion.stage = "called"
  /\ suggestion' =
       IF NumLe(SuggestLimitOf(suggestion.options), Whole(0))
       THEN [suggestion EXCEPT !.stage = "returned"]
       ELSE [suggestion EXCEPT
               !.stage = "generating",
               !.order = Candidates(suggestion.input, suggestion.options.prnReasons)]
  /\ UNCHANGED <<schedulerVars, parserVars, resolverVars, roundTrip, finished, formatting>>
\* The next candidate of the loops is handed to push.
PushCandidate ==
  /\ suggestion # <<>> /\ suggestion.stage = "generating"
  /\ LET all == suggestion.order
         at == suggestion.position + 1
     IN  /\ at <= Len(all)
         /\ LET taken == /\ all[at] \notin suggestion.seen
                         /\ matchesPrefix(all[at], suggestion.input)
                collected == IF taken THEN Append(suggestion.suggestions, all[at])
                             ELSE suggestion.suggestions
            IN  suggestion' =
                  [suggestion EXCEPT
                     !.position = at,
                     !.seen = IF taken THEN @ \cup {all[at]} ELSE @,
                     !.suggestions = collected,
                     !.stage = IF taken /\ Full(collected, SuggestLimitOf(suggestion.options))
                               THEN "returned" ELSE @]
  /\ UNCHANGED <<schedulerVars, parserVars, resolverVars, roundTrip, finished, formatting>>
\* The loops end: generateCandidateDirections returns what it has.
OutOfCandidates ==
  /\ suggestion # <<>> /\ suggestion.stage = "generating"
  /\ suggestion.position = Len(suggestion.order)
  /\ suggestion' = [suggestion EXCEPT !.stage = "returned"]
  /\ UNCHANGED <<schedulerVars, parserVars, resolverVars, roundTrip, finished, formatting>>
SuggestNext == SuggestSig \/ PushCandidate \/ OutOfCandidates
SuggestSpec == SuggestInit /\ [][SuggestNext]_vars

\* C26: suggestSig returns at most limit strings, limit being 10 when not
\* given, and none when limit is 0 or less; and the generation of candidates
\* stops with the candidate that makes the limit-th suggestion: while
\* candidates are handed on fewer than limit are collected.
C26_LimitAndShortCircuit ==
  LET limit == IF suggestion.options.limit = Undef THEN Whole(10)
               ELSE suggestion.options.limit
      count == Whole(Len(suggestion.suggestions))
  IN  /\ NumLe(limit, Whole(0)) =>
           (suggestion.suggestions = <<>> /\ suggestion.position = 0)
      /\ suggestion.stage = "returned" =>
           (NumLe(limit, Whole(0)) \/ NumLe(count, limit))
      /\ suggestion.stage = "generating" => NumLt(count, limit)

(***************************************************************************)
(* The event-anchored walk and the instants of its entries                 *)
(***************************************************************************)
\* The days around from on which an entry is placed: one before the day of
\* from, for the entries shifted forward, up to past the last day walked.
WalkedDays == (0 - 2)..(MaxLimit * 4 + 2)
\* The instants the expanded entries produce that qualify: not before from,
\* not before orderedAt, and on a weekday of the day filter.
QualifyingInstants ==
  { x \in { EntryInstant(LocalDayStart(From, TimeZone), k, expanded[i]) :
              k \in WalkedDays, i \in 1..Len(expanded) } :
      /\ x >= From
      /\ HasOrderedAt => x >= OrderedAt
      /\ DayAllowed(Repeat, getLocalWeekday(x, TimeZone)) }
ReturnedInstants == { InstantOf(outcome.list[i]) : i \in 1..Len(outcome.list) }
\* C27: in the event-anchored shape the result holds the earliest qualifying
\* instants: no instant that an expanded entry produces, whatever its day
\* shift, and that is not before from and orderedAt, is left out while a later
\* instant is returned.
C27_EarliestInstants ==
  (CallReturned /\ HasRepeat /\ HasAnchors(Repeat)) =>
    \A x \in QualifyingInstants :
      (\E y \in ReturnedInstants : y > x) => x \in ReturnedInstants

(***************************************************************************)
(* The order of the sources of a site coding                               *)
(***************************************************************************)
\* The site pass is over and left no selection or map entry to apply, while
\* the bundled body-site table has an entry for the phrase.
BuiltInSiteCase ==
  /\ resolution # <<>>
  /\ resolution.result = "returned"
  /\ resolution.inputs.site.request
  /\ ~IsSome(Preset(resolution.inputs.site))
  /\ IsSome(resolution.inputs.site.defaultDefinition)
\* C28: the bundled dictionaries come before the caller's resolvers: when the
\* bundled body-site table has an entry for the site phrase and neither a
\* selection nor a custom map entry applies, the applied coding is that entry
\* and no resolver's result takes its place.
C28_BuiltInBeforeResolvers ==
  BuiltInSiteCase =>
    resolution.coding.site = resolution.inputs.site.defaultDefinition

(***************************************************************************)
(* parseSig and parseSigAsync on synchronous callbacks                     *)
(***************************************************************************)
\* A parseSigAsync call has ended that repeated a parseSig call.
BothEnded ==
  /\ resolution # <<>>
  /\ IsSome(resolution.earlier)
  /\ resolution.result # "running"
\* No callback of the site pass is invoked before one of the PRN-reason pass.
PrnBeforeSite(invoked) ==
  \A i \in 1..Len(invoked) : \A j \in 1..Len(invoked) :
    (invoked[i].pass = "site" /\ invoked[j].pass = "prn") => j < i
\* C29: when every resolver hands back its result synchronously, parseSig and
\* parseSigAsync invoke the same callbacks in the same order, those of the
\* PRN-reason pass before those of the site pass, and give equal results.
C29_SyncAsyncAgree ==
  BothEnded =>
    /\ Ended(resolution, calls) = Val(resolution.earlier)
    /\ PrnBeforeSite(Ended(resolution, calls).invoked)
    /\ resolution.result = "returned"
\* Both calls asked the resolver of each pass, took the PRN-reason coding
\* from its resolver and, the site resolver having none, went on to the site
\* suggestion resolver.
C29_Witness ==
  /\ BothEnded
  /\ Len(Val(resolution.earlier).invoked) = 3
  /\ \E i \in 1..Len(calls) : calls[i].pass = "prn" /\ calls[i].phase = "resolvers"
  /\ \E i \in 1..Len(calls) : calls[i].pass = "site" /\ calls[i].phase = "resolvers"
  /\ \E i \in 1..Len(calls) : calls[i].pass = "site" /\ calls[i].phase = "suggestions"
  /\ IsSome(resolution.coding.prn)
  /\ resolution.lookups.site # <<>>

(***************************************************************************)
(* Monthly and yearly steps                                                *)
(***************************************************************************)
IsLeapYear(year) == (year % 4 = 0 /\ year % 100 # 0) \/ year % 400 = 0
LengthOfMonth(year, month) ==
  IF month = 2 THEN (IF IsLeapYear(year) THEN 29 ELSE 28)
  ELSE IF month \in {4, 6, 9, 11} THEN 30 ELSE 31
\* The call steps a monthly or yearly interval.
CalendarStepping ==
  /\ pc \in {"intervalSkip", "intervalSeries"}
  /\ Repeat.periodUnit \in {"mo", "a"}
\* The day of the month on which an instant falls, set against the day of
\* the baseline cut to the length of that month.
OnBaselineDay(instant) ==
  LET landed == getTimeParts(instant, TimeZone)
      baseline == getTimeParts(BaseTime, TimeZone)
  IN  landed.day = Min2(baseline.day, LengthOfMonth(landed.year, landed.month))
\* C30: every step of a monthly or yearly interval lands on the baseline's
\* day of the month, cut to the length of the month it lands in: a step
\* that was cut in a short month does not pull the later steps to an earlier
\* day.
C30_ClampDoesNotDrift ==
  CalendarStepping => OnBaselineDay(current)

====
